---- MODULE Spec2Model ----
(***************************************************************************)
(* A model of the search node of SAI (UCTNode) and of the part of the      *)
(* evaluator (Network::get_output) that the node's expansion depends on.   *)
(*                                                                         *)
(* Numbers.  The program computes with float/double.  The model is exact:  *)
(* a policy mass is an integer weight, a prior is a fraction <<num, den>>, *)
(* an eval is an integer number of won visits, a ratio is a numerator over *)
(* RatioDen.  Rounding is therefore outside the model.                     *)
(***************************************************************************)
EXTENDS Integers, Sequences, FiniteSets, TLC

(***************************************************************************)
(* Bounds of the model.                                                    *)
(***************************************************************************)
NumWorkers  == 2   \* worker threads
NumVertices == 1   \* intersections of the (cut down) board
MaxPolicy   == 3   \* the network's policy is in units of 1 / MaxPolicy
MaxCalls    == 2   \* create_children calls made in one run
MaxUpdates  == 2   \* update calls made in one run
RatioDen    == 1   \* a min_psa_ratio is n / RatioDen
NumCandidates == 3 \* candidates of a position with several legal moves
MaxWeight   == 4   \* the largest policy weight of such a candidate
BoardSide   == 2   \* side of the board the evaluator is given
MaxMovenum  == 1   \* the evaluator is given move numbers 0 .. MaxMovenum
PassMargin  == 2   \* candidate counts from BOARD_SIZE - PassMargin to
                   \* BOARD_SIZE + PassMargin

(***************************************************************************)
(* Program constants and configuration.                                    *)
(***************************************************************************)
PASS              == -1      \* FastBoard::PASS
MinPassCandidates == 5       \* the 5 of std::max(5, BOARD_SIZE)
BOARD_SIZE        == 19      \* side of the board of the build
cfg_dumbpass      == FALSE
WinningEval       == 8       \* stm_eval > 0.8f, in tenths
NUM_SYMMETRIES    == 8       \* Network::NUM_SYMMETRIES
IDENTITY_SYMMETRY == 0       \* Network::IDENTITY_SYMMETRY
OpeningMoves      == 2       \* opening_moves(BOARD_SIZE) of the time control
VIRTUAL_LOSS_COUNT == 3      \* UCTNode::VIRTUAL_LOSS_COUNT
InitRatio         == 2 * RatioDen  \* m_min_psa_ratio_children starts at 2.0

Workers  == 1..NumWorkers
Vertices == 1..NumVertices
Colors   == {"BLACK", "WHITE"}
Ratios   == 0..RatioDen            \* the ratios 0 .. 1 a caller passes

Max(a, b) == IF a >= b THEN a ELSE b

RECURSIVE SumSeq(_)
SumSeq(s) == IF s = <<>> THEN 0 ELSE Head(s) + SumSeq(Tail(s))

RECURSIVE GCD(_, _)
GCD(a, b) == IF b = 0 THEN a ELSE GCD(b, a % b)

\* The fraction n / d in lowest terms (d > 0).
Frac(n, d) == LET g == GCD(n, d) IN <<n \div g, d \div g>>

\* p + q for fractions p, q.
FracAdd(p, q) == Frac(p[1] * q[2] + q[1] * p[2], p[2] * q[2])

\* p - q and p * q for fractions p, q.
FracSub(p, q) == Frac(p[1] * q[2] - q[1] * p[2], p[2] * q[2])

FracMul(p, q) == Frac(p[1] * q[1], p[2] * q[2])

RECURSIVE FracSum(_)
FracSum(s) == IF s = <<>> THEN <<0, 1>> ELSE FracAdd(Head(s), FracSum(Tail(s)))

\* What Network::get_output returns, as far as create_children reads it: the
\* softmax output in units of 1 / MaxPolicy, so that the policy of a result
\* sums to MaxPolicy, and the side to move's winrate, 0 or 1.
Netresults ==
    {r \in [policy : [Vertices -> 0..MaxPolicy], policy_pass : 0..MaxPolicy,
            value : 0..1] :
        SumSeq([v \in Vertices |-> r.policy[v]]) + r.policy_pass = MaxPolicy}

\* The results of a network that is sure of its move.
PeakedResults ==
    {r \in Netresults :
        r.policy_pass = MaxPolicy \/ \E v \in Vertices : r.policy[v] = MaxPolicy}

(***************************************************************************)
(* Network: the symmetry table, the input planes, the forward pass.  The   *)
(* board has BoardSide * BoardSide intersections, indexed y * BoardSide +  *)
(* x from 0; a board gives each index EMPTY, BLACK or WHITE.               *)
(***************************************************************************)
NUM_INTERSECTIONS == BoardSide * BoardSide
Indices    == 0..(NUM_INTERSECTIONS - 1)
Symmetries == 0..(NUM_SYMMETRIES - 1)
Cells      == {"EMPTY", "BLACK", "WHITE"}

\* (symmetry & bit) != 0 for bit = 1, 2, 4.
BitSet(symmetry, bit) == (symmetry \div bit) % 2 = 1

\* A bug: y is not flipped once x and y were swapped.
get_symmetry_noflip(vertex, symmetry, board_size) ==
    LET x1 == IF BitSet(symmetry, 4) THEN vertex[2] ELSE vertex[1]
        y1 == IF BitSet(symmetry, 4) THEN vertex[1] ELSE vertex[2]
        x2 == IF BitSet(symmetry, 2) THEN board_size - x1 - 1 ELSE x1
        y2 == IF BitSet(symmetry, 1) /\ ~BitSet(symmetry, 4)
              THEN board_size - y1 - 1 ELSE y1
    IN  <<x2, y2>>

\* Network::get_symmetry(vertex, symmetry, board_size), vertex = <<x, y>>.
get_symmetry(vertex, symmetry, board_size) ==
    LET x1 == IF BitSet(symmetry, 4) THEN vertex[2] ELSE vertex[1]
        y1 == IF BitSet(symmetry, 4) THEN vertex[1] ELSE vertex[2]
        x2 == IF BitSet(symmetry, 2) THEN board_size - x1 - 1 ELSE x1
        y2 == IF BitSet(symmetry, 1) THEN board_size - y1 - 1 ELSE y1
    IN  <<x2, y2>>

\* The entry [s][v] of the table Network::initialize prepares.
symmetry_nn_idx_table(s, v) ==
    LET newvtx == get_symmetry(<<v % BoardSide, v \div BoardSide>>,
                               s, BoardSide)
    IN  (newvtx[2] * BoardSide) + newvtx[1]

\* The loop of Network::initialize that prepares the symmetry table.
PrepareSymmetryTable ==
    [s \in Symmetries |-> [v \in Indices |-> symmetry_nn_idx_table(s, v)]]

\* FastBoard::get_state(x, y).
get_state(board, x, y) == board[(y * BoardSide) + x]

\* The black and the white plane of the colours read for the indices.
PlanePair(color) ==
    [black |-> [idx \in Indices |-> IF color[idx] = "BLACK" THEN 1 ELSE 0],
     white |-> [idx \in Indices |-> IF color[idx] = "WHITE" THEN 1 ELSE 0]]

\* A bug: the planes are filled in the board's own orientation.
fill_input_plane_pair_plain(board, symmetry) == PlanePair(board)

\* Network::fill_input_plane_pair: plane index idx is given the colour of
\* the vertex sym_idx.
fill_input_plane_pair(board, symmetry) ==
    PlanePair([idx \in Indices |->
                  LET sym_idx == symmetry_nn_idx_table(symmetry, idx)
                  IN  get_state(board, sym_idx % BoardSide,
                                sym_idx \div BoardSide)])

\* black_it and white_it of gather_features.
PlanesOf(pair, blacks_move) ==
    IF blacks_move THEN [current |-> pair.black, opponent |-> pair.white]
                   ELSE [current |-> pair.white, opponent |-> pair.black]

\* Network::gather_features for one input move and no advanced features:
\* the stones of the side to move, then the opponent's.
gather_features(state, symmetry) ==
    PlanesOf(fill_input_plane_pair(state.board, symmetry),
             state.to_move = "BLACK")

\* The forward pass and the heads of a network that copies its first input
\* plane to its policy output: outputs[NUM_INTERSECTIONS] is the pass.
forward(input_data) ==
    [outputs |-> [idx \in 0..NUM_INTERSECTIONS |->
                     IF idx = NUM_INTERSECTIONS THEN 2
                     ELSE input_data.current[idx]],
     value |-> 1, alpha |-> 3, beta |-> 4, beta2 |-> 5]

\* A default-constructed Netresult.
EmptyResult ==
    [policy |-> [idx \in Indices |-> 0], policy_pass |-> 0, value |-> 0,
     alpha |-> 0, beta |-> 0, beta2 |-> 0, is_sai |-> FALSE]

\* Network::get_sai_winrate: sigmoid(alpha, beta, +-komi, beta2).first, kept
\* as the arguments of the sigmoid.
get_sai_winrate(result, state) ==
    <<"sigmoid", result.alpha, result.beta,
      IF state.to_move = "WHITE" THEN state.komi_adj ELSE 0 - state.komi_adj,
      result.beta2>>

\* The loop that writes the outputs into result.policy, from index idx on.
RECURSIVE WritePolicy(_, _, _, _)
WritePolicy(policy, outputs, symmetry, idx) ==
    IF idx >= NUM_INTERSECTIONS THEN policy
    ELSE WritePolicy(
             [policy EXCEPT ![symmetry_nn_idx_table(symmetry, idx)] =
                                outputs[idx]],
             outputs, symmetry, idx + 1)

\* get_output_internal after the forward pass gave net_out: the value
\* heads, then the policy.
ReadOutputs(net_out, state, symmetry, net) ==
    [policy |-> WritePolicy(EmptyResult.policy, net_out.outputs, symmetry, 0),
     policy_pass |-> net_out.outputs[NUM_INTERSECTIONS],
     value |-> IF net.is_sai THEN get_sai_winrate(net_out, state)
               ELSE net_out.value,
     alpha |-> net_out.alpha, beta |-> net_out.beta, beta2 |-> net_out.beta2,
     is_sai |-> net.is_sai]

\* Network::get_output_internal(state, symmetry) for the loaded network net.
get_output_internal(state, symmetry, net) ==
    ReadOutputs(forward(gather_features(state, symmetry)), state, symmetry, net)

(***************************************************************************)
(* Network: the cache.  A hash is the position it was computed from (no    *)
(* collisions); the cache is a function from hashes to results.            *)
(***************************************************************************)

\* The board on which the contents of every vertex v sit at the vertex
\* symmetry sym sends v to.
SymBoard(board, sym) ==
    [u \in Indices |->
        board[CHOOSE v \in Indices : symmetry_nn_idx_table(sym, v) = u]]

\* FullBoard::get_hash and GameState::get_symmetry_hash(sym).
get_hash(state) == [board |-> state.board, to_move |-> state.to_move]

get_symmetry_hash(state, sym) ==
    [board |-> SymBoard(state.board, sym), to_move |-> state.to_move]

\* NNCache::lookup(hash, result).
lookup(cache, hash) == hash \in DOMAIN cache

\* What probe_cache has when no lookup succeeded after n symmetric lookups.
Missed(n) ==
    [success |-> FALSE, result |-> EmptyResult, sym |-> IDENTITY_SYMMETRY,
     lookups |-> n]

\* corrected_policy[idx] = result.policy[sym_idx].
CorrectedPolicy(result, sym) ==
    [result EXCEPT !.policy =
        [idx \in Indices |-> result.policy[symmetry_nn_idx_table(sym, idx)]]]

\* One turn of the loop of probe_cache: the lookup of hash.
RECURSIVE ProbeSymmetries(_, _, _, _)
ProbeHash(state, cache, sym, n, hash) ==
    IF lookup(cache, hash)
    THEN [success |-> TRUE, result |-> CorrectedPolicy(cache[hash], sym),
          sym |-> sym, lookups |-> n + 1]
    ELSE ProbeSymmetries(state, cache, sym + 1, n + 1)

\* The loop of probe_cache over the symmetries from sym on; n counts the
\* lookups made.
ProbeSymmetries(state, cache, sym, n) ==
    IF sym >= NUM_SYMMETRIES THEN Missed(n)
    ELSE IF sym = IDENTITY_SYMMETRY
    THEN ProbeSymmetries(state, cache, sym + 1, n)
    ELSE ProbeHash(state, cache, sym, n, get_symmetry_hash(state, sym))

\* A bug: the symmetries are tried once the opening is over.
past_opening(state) == state.movenum >= OpeningMoves \div 2

\* "if we are in the early opening".
in_early_opening(state) == state.movenum < OpeningMoves \div 2

\* probe_cache up to the end of the loop over the symmetries.
ProbeLookups(state, cache, cfg) ==
    IF lookup(cache, get_hash(state))
    THEN [success |-> TRUE, result |-> cache[get_hash(state)],
          sym |-> IDENTITY_SYMMETRY, lookups |-> 0]
    ELSE IF /\ ~cfg.noise
            /\ cfg.random_cnt = 0
            /\ in_early_opening(state)
    THEN ProbeSymmetries(state, cache, 0, 0)
    ELSE Missed(0)

\* The end of probe_cache: get_sai_winrate on a result of a SAI network.
SaiValued(found, state) ==
    IF found.success /\ found.result.is_sai
    THEN [found EXCEPT !.result.value = get_sai_winrate(found.result, state)]
    ELSE found

\* The cached policy written to the images of the indices.
ImagesPolicy(found, state, cache) ==
    IF found.success /\ found.sym # IDENTITY_SYMMETRY
    THEN [found EXCEPT !.result.policy =
             SymBoard(cache[get_symmetry_hash(state, found.sym)].policy,
                      found.sym)]
    ELSE found

\* A bug: corrected_policy[sym_idx] = result.policy[idx].
probe_cache_images(state, cache, cfg) ==
    ImagesPolicy(ProbeLookups(state, cache, cfg), state, cache)

\* Network::probe_cache(state, result) under the options cfg: whether it
\* found a result, the result, the symmetry it was found with and the
\* number of symmetric hashes looked up.
probe_cache(state, cache, cfg) ==
    SaiValued(ProbeLookups(state, cache, cfg), state)

\* The mean of eight floats: the float itself when they are equal.
Average(values) ==
    IF \A k \in DOMAIN values : values[k] = values[0] THEN values[0]
    ELSE <<"mean", values>>

\* The AVERAGE ensemble: tmp[sym] is the result under symmetry sym.
Averaged(tmp) ==
    [policy |-> [idx \in Indices |->
                    Average([sym \in Symmetries |-> tmp[sym].policy[idx]])],
     policy_pass |-> Average([sym \in Symmetries |-> tmp[sym].policy_pass]),
     value |-> Average([sym \in Symmetries |-> tmp[sym].value]),
     alpha |-> Average([sym \in Symmetries |-> tmp[sym].alpha]),
     beta |-> Average([sym \in Symmetries |-> tmp[sym].beta]),
     beta2 |-> Average([sym \in Symmetries |-> tmp[sym].beta2]),
     is_sai |-> tmp[NUM_SYMMETRIES - 1].is_sai]

\* "v2 format (ELF Open Go) returns black value, not stm".
\* The value of a SAI result is kept as a term, and so is its complement.
StmValue(result, state, net) ==
    IF net.value_head_not_stm /\ state.to_move = "WHITE"
    THEN [result EXCEPT !.value = IF result.is_sai THEN <<"one_minus", @>>
                                  ELSE 1 - @]
    ELSE result

\* get_output after the cache: the forward passes of the ensemble.
Evaluate(a, rand_sym) ==
    StmValue(IF a.ensemble = "AVERAGE"
             THEN Averaged([sym \in Symmetries |->
                               get_output_internal(a.state, sym, a.net)])
             ELSE get_output_internal(a.state,
                      IF a.ensemble = "DIRECT" THEN a.symmetry ELSE rand_sym,
                      a.net),
             a.state, a.net)

\* What get_output did when it returns without a forward pass.
NotEvaluated ==
    [result |-> EmptyResult, consulted |-> FALSE, hit |-> FALSE,
     sym |-> IDENTITY_SYMMETRY, lookups |-> 0, forwards |-> 0,
     inserted |-> FALSE]

\* A bug: the cache is consulted for every ensemble.
consults_cache_always(read_cache, ensemble) == read_cache

\* The test of get_output before probe_cache.
consults_cache(read_cache, ensemble) == read_cache /\ ensemble # "AVERAGE"

\* get_output once probe_cache has returned probed.
AfterProbe(a, rand_sym, probed) ==
    IF probed.success
    THEN [NotEvaluated EXCEPT
             !.result = probed.result, !.consulted = TRUE, !.hit = TRUE,
             !.sym = probed.sym, !.lookups = probed.lookups]
    ELSE [NotEvaluated EXCEPT
             !.result = Evaluate(a, rand_sym), !.consulted = TRUE,
             !.lookups = probed.lookups,
             !.forwards = 1,
             !.inserted = a.write_cache]

\* Network::get_output(state, ensemble, symmetry, read_cache, write_cache)
\* with the cache a.cache, the options a.cfg and the network a.net, in a
\* build without the OpenCL self-check; rand_sym is the symmetry drawn for
\* RANDOM_SYMMETRY.  With the result: whether the cache was consulted and
\* hit, how many forward passes were run, whether the result was inserted.
get_output(a, rand_sym) ==
    IF a.state.boardsize # BoardSide THEN NotEvaluated
    ELSE IF consults_cache(a.read_cache, a.ensemble)
    THEN AfterProbe(a, rand_sym, probe_cache(a.state, a.cache, a.cfg))
    ELSE [NotEvaluated EXCEPT
             !.result = Evaluate(a, rand_sym),
             !.forwards = IF a.ensemble = "AVERAGE" THEN NUM_SYMMETRIES
                                                    ELSE 1,
             !.inserted = a.write_cache]

VARIABLES
    node,      \* the UCTNode being expanded
    pos,       \* the game state that leads to the node, with what the
               \* evaluator may answer for it and the threads searching it
    pc,        \* pc[w]: where worker w is inside create_children
    arg,       \* arg[w]: the min_psa_ratio of w's call
    out,       \* out[w]: the caller's output parameters (value)
    ghost,     \* history kept for the properties
    drained,   \* the evaluator is drained (drain_evals .. resume_evals)
    calls,     \* create_children calls made so far
    wpc,       \* where the thread calling wait_expanded is
    thr,       \* thr[w]: where worker w is inside update or inside a descent
    app        \* the call of a function on its own: its name, arguments
               \* and result

vars == <<node, pos, pc, arg, out, ghost, drained, calls, wpc, thr, app>>

(***************************************************************************)
(* UCTNode::create_children: the candidate list.                           *)
(***************************************************************************)

\* std::pow(taken_policy, 1.0f / cfg_policy_temp) for cfg_policy_temp = 1.
WarmPolicy(p) == p

\* The loop over the intersections (the stabiliser subgroup is {identity}:
\* cfg_exploit_symmetries off): one candidate per legal vertex, in index order.
RECURSIVE BoardCandidates(_, _, _)
BoardCandidates(res, legal, i) ==
    IF i > NumVertices THEN <<>>
    ELSE (IF i \in legal
          THEN <<[first |-> WarmPolicy(res.policy[i]), second |-> i]>>
          ELSE <<>>) \o BoardCandidates(res, legal, i + 1)

\* A bug: the pass needs fewer than max(5, BOARD_SIZE) candidates.
allow_pass_fewer(dumbpass, nodelist_size, stm_eval, relative_score) ==
    \/ dumbpass
    \/ nodelist_size < Max(MinPassCandidates, BOARD_SIZE)
    \/ (stm_eval > WinningEval /\ relative_score >= 0)

\* allow_pass as create_children computes it from cfg_dumbpass, the number
\* of candidates on the board, the side to move's winrate (in tenths) and the
\* board score seen from the side to move.
allow_pass(dumbpass, nodelist_size, stm_eval, relative_score) ==
    \/ dumbpass
    \/ nodelist_size <= Max(MinPassCandidates, BOARD_SIZE)
    \/ (stm_eval > WinningEval /\ relative_score >= 0)

\* allow_pass for a result of winrate 0 or 1 (ahead tells whether
\* relative_score >= 0).
AllowPass(res, ncand, ahead) ==
    allow_pass(cfg_dumbpass, ncand, 10 * res.value, IF ahead THEN 0 ELSE -1)

Candidates(res, legal, ahead) ==
    LET board == BoardCandidates(res, legal, 1)
    IN  IF AllowPass(res, Len(board), ahead)
        THEN Append(board, [first |-> WarmPolicy(res.policy_pass), second |-> PASS])
        ELSE board

\* A bug: the priors are left as the network gave them.
Normalise_skipped(nodelist) ==
    [k \in 1..Len(nodelist) |->
        [first |-> Frac(nodelist[k].first, MaxPolicy),
         second |-> nodelist[k].second]]

\* The renormalisation: every prior becomes first / legal_sum, or
\* 1 / nodelist.size() when legal_sum underflows.  A prior is <<num, den>>.
Normalise(nodelist) ==
    LET legal_sum == SumSeq([k \in 1..Len(nodelist) |-> nodelist[k].first])
    IN  IF legal_sum > 0
        THEN [k \in 1..Len(nodelist) |->
                 [first |-> Frac(nodelist[k].first, legal_sum),
                  second |-> nodelist[k].second]]
        ELSE [k \in 1..Len(nodelist) |->
                 [first |-> <<1, Len(nodelist)>>,
                  second |-> nodelist[k].second]]

\* p < q for priors p, q.
PriorLess(p, q) == p[1] * q[2] < q[1] * p[2]

\* operator< of std::pair<float, int>.
PairLess(a, b) ==
    \/ PriorLess(a.first, b.first)
    \/ (~PriorLess(b.first, a.first) /\ a.second < b.second)

\* std::stable_sort(rbegin(nodelist), rend(nodelist)): best first; an element
\* goes behind the elements that are not less than it.
RECURSIVE InsertPair(_, _)
InsertPair(x, s) ==
    IF s = <<>> THEN <<x>>
    ELSE IF PairLess(Head(s), x) THEN <<x>> \o s
    ELSE <<Head(s)>> \o InsertPair(x, Tail(s))

RECURSIVE SortNodelist(_)
SortNodelist(s) ==
    IF s = <<>> THEN <<>>
    ELSE InsertPair(s[Len(s)], SortNodelist(SubSeq(s, 1, Len(s) - 1)))

(***************************************************************************)
(* UCTNode::link_nodelist.                                                 *)
(***************************************************************************)

\* node.first < max_psa * ratio, the ratio being r / RatioDen.
BelowRatio(first, max_psa, r) ==
    first[1] * max_psa[2] * RatioDen < max_psa[1] * r * first[2]

NewChild(cand) ==
    [move |-> cand.second, policy |-> cand.first, visits |-> 0, blackevals |-> 0]

\* The children link_nodelist appends: the candidates that are not below
\* new_min_psa and are below old_min_psa, in sorted order.
RECURSIVE LinkedChildren(_, _, _, _)
LinkedChildren(sorted, max_psa, old_ratio, new_ratio) ==
    IF sorted = <<>> THEN <<>>
    ELSE LET c == Head(sorted)
             rest == LinkedChildren(Tail(sorted), max_psa, old_ratio, new_ratio)
         IN  IF BelowRatio(c.first, max_psa, new_ratio) THEN rest
             ELSE IF BelowRatio(c.first, max_psa, old_ratio)
                  THEN <<NewChild(c)>> \o rest
                  ELSE rest

SkippedChildren(sorted, max_psa, new_ratio) ==
    \E k \in 1..Len(sorted) : BelowRatio(sorted[k].first, max_psa, new_ratio)

\* A bug: the new children replace the children the node has.
link_nodelist_replace(n, nodelist, min_psa_ratio) ==
    IF nodelist = <<>> THEN n
    ELSE LET sorted  == SortNodelist(nodelist)
             max_psa == sorted[1].first
         IN  [n EXCEPT
                !.children = LinkedChildren(sorted, max_psa,
                                 n.min_psa_ratio_children, min_psa_ratio),
                !.min_psa_ratio_children =
                    IF SkippedChildren(sorted, max_psa, min_psa_ratio)
                    THEN min_psa_ratio ELSE 0]

\* A bug: old_min_psa is max_psa times a ratio of at most 1, so that the
\* best candidate is never below it.
link_nodelist_capped(n, nodelist, min_psa_ratio) ==
    IF nodelist = <<>> THEN n
    ELSE LET sorted  == SortNodelist(nodelist)
             max_psa == sorted[1].first
         IN  [n EXCEPT
                !.children = @ \o LinkedChildren(sorted, max_psa,
                                     IF n.min_psa_ratio_children > RatioDen
                                     THEN RatioDen
                                     ELSE n.min_psa_ratio_children,
                                     min_psa_ratio),
                !.min_psa_ratio_children =
                    IF SkippedChildren(sorted, max_psa, min_psa_ratio)
                    THEN min_psa_ratio ELSE 0]

\* link_nodelist(nodecount, nodelist, min_psa_ratio) on node n.
link_nodelist(n, nodelist, min_psa_ratio) ==
    IF nodelist = <<>> THEN n
    ELSE LET sorted  == SortNodelist(nodelist)
             max_psa == sorted[1].first
         IN  [n EXCEPT
                !.children = @ \o LinkedChildren(sorted, max_psa,
                                     n.min_psa_ratio_children, min_psa_ratio),
                !.min_psa_ratio_children =
                    IF SkippedChildren(sorted, max_psa, min_psa_ratio)
                    THEN min_psa_ratio ELSE 0]

\* A bug: a node is also expandable with the ratio it was expanded with.
expandable_again(n, min_psa_ratio) == min_psa_ratio <= n.min_psa_ratio_children

\* UCTNode::expandable(min_psa_ratio).
expandable(n, min_psa_ratio) == min_psa_ratio < n.min_psa_ratio_children

\* UCTNode::has_children().
has_children(n) == n.min_psa_ratio_children <= RatioDen

(***************************************************************************)
(* The node and its expansion (UCTNode::create_children).                  *)
(***************************************************************************)

\* The sum of the priors of the candidates that are below max_psa * ratio.
RECURSIVE DroppedPriors(_, _, _)
DroppedPriors(sorted, max_psa, r) ==
    IF sorted = <<>> THEN <<0, 1>>
    ELSE LET rest == DroppedPriors(Tail(sorted), max_psa, r)
         IN  IF BelowRatio(Head(sorted).first, max_psa, r)
             THEN FracAdd(Head(sorted).first, rest)
             ELSE rest

\* A node as its constructor leaves it.
NewNode ==
    [expand_state |-> "INITIAL", children |-> <<>>,
     min_psa_ratio_children |-> InitRatio,
     visits |-> 0, virtual_loss |-> 0, forced |-> 0,
     blackevals |-> 0, squared_eval_diff |-> <<0, 1>>, pi_sum |-> 0,
     net_pi |-> 0, quantile_updates |-> 0]

\* Where a worker is: outside any call (with the outcome of its last call) or
\* at a step of create_children.
Outside == {"idle", "false", "true", "halt", "error"}
Inside  == {"acquired", "eval", "update", "done"}

\* What the properties remember of a call: whether it won the expansion, how
\* often it called the evaluator, whether it wrote to the node, and the node
\* as the call found it (kept until the evaluator answers).
NoGhost == [won |-> FALSE, evals |-> 0, wrote |-> FALSE, snap |-> <<>>]

\* No function is being applied on its own.
NoCall == [op |-> "none"]

\* A thread outside update and outside any descent.
IdleThread ==
    [pc |-> "idle", eval |-> 0, raw |-> 0, forced |-> FALSE,
     old_eval |-> 0, old_visits |-> 0]

\* What the properties remember of the update calls: how many were made, how
\* many of them forced, the sums of their evals and raw evals, and whether
\* one was made while another was running.
NoUpdates == [n |-> 0, k |-> 0, evals |-> 0, raws |-> 0, overlap |-> FALSE]

\* A bug: the exchange succeeds on every state but EXPANDED.
acquire_expanding_any(n) == n.expand_state # "EXPANDED"

\* UCTNode::acquire_expanding: the compare-and-exchange INITIAL -> EXPANDING
\* succeeds on INITIAL alone.
acquire_expanding(n) == n.expand_state = "INITIAL"

\* UCTNode::expand_done: a plain exchange.
expand_done(n) == [n EXCEPT !.expand_state = "EXPANDED"]

\* A bug: the cancellation marks the node expanded.
expand_cancel_done(n) == [n EXCEPT !.expand_state = "EXPANDED"]

\* UCTNode::expand_cancel: a plain exchange.
expand_cancel(n) == [n EXCEPT !.expand_state = "INITIAL"]

\* A bug: the final state is the one after three passes.
final_state_late(p) == p.passes > 2

\* "no successors in final state": state.get_passes() >= 2.
final_state(p) == p.passes >= 2

\* atomic_add(f, d): a compare-and-exchange loop, one atomic addition.
atomic_add(f, d) == f + d

\* A bug: the visits are written from the value update() cached.
visits_increment_cached(n, old_visits) == [n EXCEPT !.visits = old_visits + 1]

\* m_visits++, in an update() that cached old_visits.
visits_increment(n, old_visits) == [n EXCEPT !.visits = @ + 1]

\* UCTNode::accumulate_eval.
accumulate_eval(n, eval) == [n EXCEPT !.blackevals = atomic_add(@, eval)]

\* The term of Welford's algorithm update() adds to m_squared_eval_diff, from
\* the values it cached.
WelfordDelta(eval, old_eval, old_visits) ==
    LET old_delta == IF old_visits > 0
                     THEN Frac(eval * old_visits - old_eval, old_visits)
                     ELSE <<0, 1>>
        new_delta == Frac(eval * (old_visits + 1) - (old_eval + eval),
                          old_visits + 1)
    IN  FracMul(old_delta, new_delta)

\* UCTNode::update(result, forced), taken as one step; eval and raw_eval
\* (result.eval()) are in black's frame.
update(n, eval, raw_eval, is_forced) ==
    LET old_eval   == n.blackevals
        old_visits == n.visits
        counted    == accumulate_eval(visits_increment(n, old_visits), eval)
    IN  [counted EXCEPT
            !.squared_eval_diff =
                FracAdd(@, WelfordDelta(eval, old_eval, old_visits)),
            !.forced = IF is_forced THEN @ + 1 ELSE @,
            !.pi_sum = atomic_add(@, raw_eval)]

\* value = (to_move == BLACK) ? stm_eval : 1 - stm_eval.
BlackValue(res) == IF pos.to_move = "BLACK" THEN res.value ELSE 1 - res.value

\* create_children up to the compare-and-exchange: the two-passes test, then
\* acquire_expanding.
Call(w) ==
    /\ w \in pos.threads
    /\ pc[w] \in Outside
    /\ calls < MaxCalls
    /\ calls' = calls + 1
    /\ \E r \in Ratios :
        IF final_state(pos)
        THEN /\ pc' = [pc EXCEPT ![w] = "false"]
             /\ ghost' = [ghost EXCEPT !.w[w] = NoGhost]
             /\ UNCHANGED <<node, arg>>
        ELSE IF acquire_expanding(node)
        THEN /\ pc' = [pc EXCEPT ![w] = "acquired"]
             /\ ghost' = [ghost EXCEPT !.w[w] =
                              [NoGhost EXCEPT !.won = TRUE, !.snap = node]]
             /\ node' = [node EXCEPT !.expand_state = "EXPANDING"]
             /\ arg' = [arg EXCEPT ![w] = r]
        ELSE /\ pc' = [pc EXCEPT ![w] = "false"]
             /\ ghost' = [ghost EXCEPT !.w[w] = NoGhost]
             /\ UNCHANGED <<node, arg>>
    /\ UNCHANGED <<pos, out, drained, wpc, thr, app>>

\* "can we actually expand?"
CheckExpandable(w) ==
    /\ pc[w] = "acquired"
    /\ IF expandable(node, arg[w])
       THEN /\ pc' = [pc EXCEPT ![w] = "eval"]
            /\ node' = node
            /\ ghost' = ghost
       ELSE /\ pc' = [pc EXCEPT ![w] = "false"]
            /\ node' = expand_done(node)
            /\ ghost' = [ghost EXCEPT !.w[w].snap = <<>>]
    /\ UNCHANGED <<pos, arg, out, drained, calls, wpc, thr, app>>

\* create_children from the candidate list to link_nodelist: the node's net
\* values, the caller's output parameters, the normalised list, the children.
LinkCandidates(w, candidates, value) ==
    LET nodelist == Normalise(candidates)
        sorted   == SortNodelist(nodelist)
    IN  /\ node' = link_nodelist([node EXCEPT !.net_pi = value],
                                 nodelist, arg[w])
        /\ ghost' = [ghost EXCEPT
             !.w[w].evals = @ + 1,
             !.w[w].wrote = TRUE,
             !.w[w].snap = <<>>,
             !.links = @ + 1,
             !.dropped = DroppedPriors(sorted, sorted[1].first, arg[w]),
             !.nodelist = sorted,
             !.ratio = arg[w]]
        /\ out' = [out EXCEPT ![w] = value]
        /\ pc' = [pc EXCEPT ![w] = "update"]
        /\ UNCHANGED <<pos, arg, drained, calls, wpc, thr, app>>

\* network.get_output returns a result res; then the candidate list and the
\* rest of create_children up to link_nodelist.
EvalLink(w) ==
    /\ pc[w] = "eval"
    /\ \E res \in pos.results, ahead \in BOOLEAN :
        LinkCandidates(w, Candidates(res, pos.legal, ahead), BlackValue(res))

\* The candidate lists of a position that has NumCandidates - 1 legal
\* intersections and many illegal ones: the network's policy of the legal
\* intersections and of the pass, in units small enough that the illegal
\* intersections can hold the rest of the mass.
WideCandidates ==
    {[k \in 1..NumCandidates |->
         [first  |-> WarmPolicy(ws[k]),
          second |-> IF k = NumCandidates THEN PASS ELSE k]] :
        ws \in [1..NumCandidates -> 0..MaxWeight]}

\* EvalLink at such a position (few candidates: the pass is allowed).
WideEvalLink(w) ==
    /\ pc[w] = "eval"
    /\ \E candidates \in WideCandidates, value \in 0..1 :
        LinkCandidates(w, candidates, value)

\* network.get_output throws NetworkHaltException: expand_cancel, rethrow.
EvalHalt(w) ==
    /\ pc[w] = "eval"
    /\ drained
    /\ node' = expand_cancel(node)
    /\ pc' = [pc EXCEPT ![w] = "halt"]
    /\ ghost' = [ghost EXCEPT !.w[w].evals = @ + 1, !.w[w].snap = <<>>,
                               !.halted = TRUE]
    /\ UNCHANGED <<pos, arg, out, drained, calls, wpc, thr, app>>

\* network.get_output throws the self-check's std::runtime_error, which
\* create_children does not catch.
EvalError(w) ==
    /\ pc[w] = "eval"
    /\ pc' = [pc EXCEPT ![w] = "error"]
    /\ ghost' = [ghost EXCEPT !.w[w].evals = @ + 1, !.w[w].snap = <<>>]
    /\ UNCHANGED <<node, pos, arg, out, drained, calls, wpc, thr, app>>

\* update(result), and for a SAI network set_lambda_mu and
\* update_all_quantiles.
Backup(w) ==
    /\ pc[w] = "update"
    /\ node' = [update(node, out[w], out[w], FALSE) EXCEPT
                   !.quantile_updates = IF pos.sai THEN @ + 1 ELSE @]
    /\ pc' = [pc EXCEPT ![w] = "done"]
    /\ UNCHANGED <<pos, arg, out, ghost, drained, calls, wpc, thr, app>>

\* expand_done(); return true.
Done(w) ==
    /\ pc[w] = "done"
    /\ node' = expand_done(node)
    /\ pc' = [pc EXCEPT ![w] = "true"]
    /\ UNCHANGED <<pos, arg, out, ghost, drained, calls, wpc, thr, app>>

\* Network::drain_evals and Network::resume_evals.
Drain ==
    /\ ~drained
    /\ drained' = TRUE
    /\ UNCHANGED <<node, pos, pc, arg, out, ghost, calls, wpc, thr, app>>

Resume ==
    /\ drained
    /\ drained' = FALSE
    /\ UNCHANGED <<node, pos, pc, arg, out, ghost, calls, wpc, thr, app>>

\* A bug: the driver runs count_nodes_and_clear_expand_state whatever the
\* workers are doing.
ClearExpandState_anytime ==
    /\ expandable(node, 0)
    /\ node.expand_state # "INITIAL"
    /\ node' = [node EXCEPT !.expand_state = "INITIAL"]
    /\ UNCHANGED <<pos, pc, arg, out, ghost, drained, calls, wpc, thr, app>>

\* A bug: the state is cleared without the test of expandable().
ClearExpandState_full ==
    /\ \A w \in Workers : pc[w] \in Outside
    /\ node.expand_state # "INITIAL"
    /\ node' = [node EXCEPT !.expand_state = "INITIAL"]
    /\ UNCHANGED <<pos, pc, arg, out, ghost, drained, calls, wpc, thr, app>>

\* UCTNode::count_nodes_and_clear_expand_state on the node, which the driver
\* runs between two searches, when no worker is inside create_children.
ClearExpandState ==
    /\ \A w \in Workers : pc[w] \in Outside
    /\ expandable(node, 0)
    /\ node.expand_state # "INITIAL"
    /\ node' = [node EXCEPT !.expand_state = "INITIAL"]
    /\ UNCHANGED <<pos, pc, arg, out, ghost, drained, calls, wpc, thr, app>>

\* UCTNode::wait_expanded, called by a thread that selects below the node.
WaitCall ==
    /\ wpc = "idle"
    /\ wpc' = "waiting"
    /\ UNCHANGED <<node, pos, pc, arg, out, ghost, drained, calls, thr, app>>

WaitReturn ==
    /\ wpc = "waiting"
    /\ node.expand_state # "EXPANDING"
    /\ wpc' = "returned"
    /\ UNCHANGED <<node, pos, pc, arg, out, ghost, drained, calls, thr, app>>

(***************************************************************************)
(* UCTNode::update, one atomic access at a step.                           *)
(***************************************************************************)

\* update(result, forced) is called: eval is result.eval(), or for a SAI
\* head result.eval_with_bonus(..), which need not be result.eval().
UpdateCall(w) ==
    /\ w \in pos.threads
    /\ thr[w].pc = "idle"
    /\ ghost.upd.n < MaxUpdates
    /\ \E eval \in 0..1, forced \in BOOLEAN :
         \E raw \in (IF pos.sai THEN 0..1 ELSE {eval}) :
            /\ thr' = [thr EXCEPT ![w] =
                          [IdleThread EXCEPT !.pc = "old_eval", !.eval = eval,
                                             !.raw = raw, !.forced = forced]]
            /\ ghost' = [ghost EXCEPT !.upd =
                          [n |-> @.n + 1,
                           k |-> IF forced THEN @.k + 1 ELSE @.k,
                           evals |-> @.evals + eval,
                           raws |-> @.raws + raw,
                           overlap |-> @.overlap \/
                               \E v \in Workers : thr[v].pc # "idle"]]
    /\ UNCHANGED <<node, pos, pc, arg, out, drained, calls, wpc, app>>

\* auto old_eval = static_cast<float>(m_blackevals);
UpdateOldEval(w) ==
    /\ thr[w].pc = "old_eval"
    /\ thr' = [thr EXCEPT ![w].old_eval = node.blackevals,
                          ![w].pc = "old_visits"]
    /\ UNCHANGED <<node, pos, pc, arg, out, ghost, drained, calls, wpc, app>>

\* auto old_visits = static_cast<int>(m_visits);
UpdateOldVisits(w) ==
    /\ thr[w].pc = "old_visits"
    /\ thr' = [thr EXCEPT ![w].old_visits = node.visits, ![w].pc = "visits"]
    /\ UNCHANGED <<node, pos, pc, arg, out, ghost, drained, calls, wpc, app>>

\* m_visits++;
UpdateVisits(w) ==
    /\ thr[w].pc = "visits"
    /\ node' = visits_increment(node, thr[w].old_visits)
    /\ thr' = [thr EXCEPT ![w].pc = "eval"]
    /\ UNCHANGED <<pos, pc, arg, out, ghost, drained, calls, wpc, app>>

\* accumulate_eval(eval);
UpdateEval(w) ==
    /\ thr[w].pc = "eval"
    /\ node' = accumulate_eval(node, thr[w].eval)
    /\ thr' = [thr EXCEPT ![w].pc = "diff"]
    /\ UNCHANGED <<pos, pc, arg, out, ghost, drained, calls, wpc, app>>

\* atomic_add(m_squared_eval_diff, delta); if (forced)
UpdateDiff(w) ==
    /\ thr[w].pc = "diff"
    /\ node' = [node EXCEPT !.squared_eval_diff =
                   FracAdd(@, WelfordDelta(thr[w].eval, thr[w].old_eval,
                                           thr[w].old_visits))]
    /\ thr' = [thr EXCEPT ![w].pc = IF thr[w].forced THEN "forced" ELSE "pi_sum"]
    /\ UNCHANGED <<pos, pc, arg, out, ghost, drained, calls, wpc, app>>

\* m_forced++;
UpdateForced(w) ==
    /\ thr[w].pc = "forced"
    /\ node' = [node EXCEPT !.forced = @ + 1]
    /\ thr' = [thr EXCEPT ![w].pc = "pi_sum"]
    /\ UNCHANGED <<pos, pc, arg, out, ghost, drained, calls, wpc, app>>

\* atomic_add(m_pi_sum, result.eval()); return eval;
UpdateReturn(w) ==
    /\ thr[w].pc = "pi_sum"
    /\ node' = [node EXCEPT !.pi_sum = atomic_add(@, thr[w].raw)]
    /\ thr' = [thr EXCEPT ![w] = IdleThread]
    /\ UNCHANGED <<pos, pc, arg, out, ghost, drained, calls, wpc, app>>

(***************************************************************************)
(* Virtual loss and the evals the selection reads.                         *)
(***************************************************************************)

\* A bug: the undo takes one visit back.
virtual_loss_undo_one(n) == [n EXCEPT !.virtual_loss = @ - 1]

\* UCTNode::virtual_loss and UCTNode::virtual_loss_undo.
virtual_loss(n) == [n EXCEPT !.virtual_loss = @ + VIRTUAL_LOSS_COUNT]

virtual_loss_undo(n) == [n EXCEPT !.virtual_loss = @ - VIRTUAL_LOSS_COUNT]

\* UCTNode::get_raw_eval(tomove, virtual_loss), for visits + virtual_loss > 0.
get_raw_eval(n, tomove, vl) ==
    LET visits    == n.visits + vl
        blackeval == IF tomove = "WHITE" THEN n.blackevals + vl
                                         ELSE n.blackevals
        eval      == Frac(blackeval, visits)
    IN  IF tomove = "WHITE" THEN FracSub(<<1, 1>>, eval) ELSE eval

\* UCTNode::get_eval(tomove).
get_eval(n, tomove) == get_raw_eval(n, tomove, n.virtual_loss)

\* The loop of UCTNode::get_fpu_eval over the children from the k-th on: acc
\* holds max_eval, parentvisits, total_visited_policy, n and avg_eval.
RECURSIVE FpuLoop(_, _, _, _)
FpuLoop(children, k, color, acc) ==
    IF k > Len(children) THEN acc
    ELSE LET child == children[k]
         IN  IF child.valid /\ child.visits > 0
             THEN LET child_eval == get_raw_eval(child, color, 0)
                      n          == acc.n + 1
                  IN  FpuLoop(children, k + 1, color,
                        [max_eval |-> IF PriorLess(acc.max_eval, child_eval)
                                      THEN child_eval ELSE acc.max_eval,
                         parentvisits |-> acc.parentvisits + child.visits,
                         total_visited_policy |->
                             FracAdd(acc.total_visited_policy, child.policy),
                         n |-> n,
                         avg_eval |->
                             FracAdd(acc.avg_eval,
                                 FracMul(FracSub(child_eval, acc.avg_eval),
                                         <<1, n>>))])
             ELSE FpuLoop(children, k + 1, color, acc)

\* UCTNode::get_fpu_eval(color, is_root, parentvisits) under the options
\* cfg: the value returned is eval - reduction * sqrt(radicand), kept as its
\* three parts.
get_fpu_eval(children, color, is_root, cfg) ==
    LET acc == FpuLoop(children, 1, color,
                   [max_eval |-> <<0, 1>>, parentvisits |-> 0,
                    total_visited_policy |-> <<0, 1>>, n |-> 0,
                    avg_eval |-> <<0, 1>>])
        plain == [eval |-> <<0, 1>>, reduction |-> 0, radicand |-> <<0, 1>>,
                  parentvisits |-> acc.parentvisits]
    IN  IF cfg.fpuavg
        THEN [plain EXCEPT !.eval =
                 IF acc.n > 1
                 THEN FracSub(acc.avg_eval,
                          FracMul(FracSub(acc.max_eval, acc.avg_eval),
                                  <<1, acc.n - 1>>))
                 ELSE acc.avg_eval]
        ELSE IF cfg.fpuzero
        THEN plain
        ELSE [eval |-> acc.max_eval,
              reduction |-> IF is_root THEN cfg.fpu_root_reduction
                                       ELSE cfg.fpu_reduction,
              radicand |-> acc.total_visited_policy,
              parentvisits |-> acc.parentvisits]

\* A descent of worker w comes through the node: virtual_loss().
Select(w) ==
    /\ w \in pos.threads
    /\ thr[w].pc = "idle"
    /\ node' = virtual_loss(node)
    /\ thr' = [thr EXCEPT ![w].pc = "descending"]
    /\ UNCHANGED <<pos, pc, arg, out, ghost, drained, calls, wpc, app>>

\* The descent's result comes back to the node: update(result).
VisitBackup(w) ==
    /\ thr[w].pc = "descending"
    /\ ghost.upd.n < MaxUpdates
    /\ \E eval \in 0..1, forced \in BOOLEAN :
         \E raw \in (IF pos.sai THEN 0..1 ELSE {eval}) :
            /\ node' = update(node, eval, raw, forced)
            /\ ghost' = [ghost EXCEPT !.upd.n = @ + 1]
    /\ thr' = [thr EXCEPT ![w].pc = "backed"]
    /\ UNCHANGED <<pos, pc, arg, out, drained, calls, wpc, app>>

\* The descent leaves the node, with a result or without: virtual_loss_undo().
Undo(w) ==
    /\ thr[w].pc \in {"descending", "backed"}
    /\ node' = virtual_loss_undo(node)
    /\ thr' = [thr EXCEPT ![w].pc = "idle"]
    /\ UNCHANGED <<pos, pc, arg, out, ghost, drained, calls, wpc, app>>

(***************************************************************************)
(* Descents below the node, and the sorting of its children.               *)
(***************************************************************************)

\* update() on a child, as far as its parent reads the child.
ChildUpdate(c, eval) ==
    [c EXCEPT !.visits = @ + 1, !.blackevals = atomic_add(@, eval)]

\* A descent through the node that ends below its child i: the child and the
\* node are updated with the descent's result.
Descend(i) ==
    /\ \A w \in Workers : pc[w] \in Outside
    /\ node.expand_state # "EXPANDING"
    /\ has_children(node)
    /\ i \in 1..Len(node.children)
    /\ ghost.upd.n < MaxUpdates
    /\ \E eval \in 0..1 :
         node' = update([node EXCEPT !.children[i] = ChildUpdate(@, eval)],
                        eval, eval, FALSE)
    /\ ghost' = [ghost EXCEPT !.upd.n = @ + 1]
    /\ UNCHANGED <<pos, pc, arg, out, drained, calls, wpc, thr, app>>

\* UCTNode::get_eval_lcb(color): the lower confidence bound of a child with
\* two visits or more depends on the variance of its evals and is the
\* child's field lcb.
get_eval_lcb(a, color) ==
    IF a.visits < 2 THEN a.visits - 1000000 ELSE a.lcb

\* A bug: children of equal visits are always compared by prior.
NodeComp_prior(color, lcb_min_visits, uselcb, a, b) ==
    LET m_lcb_min_visits == IF PriorLess(lcb_min_visits, <<2, 1>>)
                            THEN <<2, 1>> ELSE lcb_min_visits
    IN  IF /\ PriorLess(m_lcb_min_visits, <<a.visits, 1>>)
           /\ PriorLess(m_lcb_min_visits, <<b.visits, 1>>)
           /\ uselcb
           /\ get_eval_lcb(a, color) # get_eval_lcb(b, color)
        THEN get_eval_lcb(a, color) < get_eval_lcb(b, color)
        ELSE IF a.visits # b.visits THEN a.visits < b.visits
        ELSE PriorLess(a.policy, b.policy)

\* NodeComp::operator() for NodeComp(color, lcb_min_visits) under cfg_uselcb
\* = uselcb; lcb_min_visits is a fraction.  A child's get_eval is read with
\* no virtual loss pending on it.
NodeComp(color, lcb_min_visits, uselcb, a, b) ==
    LET m_lcb_min_visits == IF PriorLess(lcb_min_visits, <<2, 1>>)
                            THEN <<2, 1>> ELSE lcb_min_visits
    IN  IF /\ PriorLess(m_lcb_min_visits, <<a.visits, 1>>)
           /\ PriorLess(m_lcb_min_visits, <<b.visits, 1>>)
           /\ uselcb
           /\ get_eval_lcb(a, color) # get_eval_lcb(b, color)
        THEN get_eval_lcb(a, color) < get_eval_lcb(b, color)
        ELSE IF a.visits # b.visits THEN a.visits < b.visits
        ELSE IF a.visits = 0 THEN PriorLess(a.policy, b.policy)
        ELSE PriorLess(get_raw_eval(a, color, 0), get_raw_eval(b, color, 0))

\* NodeCompByPolicy::operator().
NodeCompByPolicy(a, b) == PriorLess(a.policy, b.policy)

\* comp(a, b) for the comparator by: a colour (with cfg_uselcb off), or
\* "policy".
ChildLess(by, a, b) ==
    IF by = "policy" THEN NodeCompByPolicy(a, b)
    ELSE NodeComp(by, <<0, 1>>, FALSE, a, b)

\* std::stable_sort(rbegin(m_children), rend(m_children), comp).
RECURSIVE InsertChild(_, _, _)
InsertChild(by, x, s) ==
    IF s = <<>> THEN <<x>>
    ELSE IF ChildLess(by, Head(s), x) THEN <<x>> \o s
    ELSE <<Head(s)>> \o InsertChild(by, x, Tail(s))

RECURSIVE SortChildren(_, _)
SortChildren(by, s) ==
    IF s = <<>> THEN <<>>
    ELSE InsertChild(by, s[Len(s)], SortChildren(by, SubSeq(s, 1, Len(s) - 1)))

\* UCTNode::sort_children(color, lcb_min_visits).
sort_children(n, color) ==
    [n EXCEPT !.children = SortChildren(color, @)]

\* UCTNode::sort_children_by_policy().
sort_children_by_policy(n) ==
    [n EXCEPT !.children = SortChildren("policy", @)]

\* std::max_element(begin, end, comp) over children from the k-th on, best
\* being the index of the largest so far.
RECURSIVE MaxElement(_, _, _, _, _, _)
MaxElement(children, k, best, color, lcb_min_visits, uselcb) ==
    IF k > Len(children) THEN best
    ELSE MaxElement(children, k + 1,
             IF NodeComp(color, lcb_min_visits, uselcb,
                         children[best], children[k])
             THEN k ELSE best,
             color, lcb_min_visits, uselcb)

\* The max_visits loop of get_best_root_child.
RECURSIVE MaxVisits(_)
MaxVisits(children) ==
    IF children = <<>> THEN 0
    ELSE Max(Head(children).visits, MaxVisits(Tail(children)))

\* UCTNode::get_best_root_child(color) on a node with the children given,
\* under the options cfg: the index of the child returned.
get_best_root_child(children, color, cfg) ==
    MaxElement(children, 2, 1, color,
               FracMul(cfg.lcb_min_visit_ratio, <<MaxVisits(children), 1>>),
               cfg.uselcb)

\* A thread sorts the children, whatever the workers are doing.
Sort(color) ==
    /\ node.children # <<>>
    /\ node' = sort_children(node, color)
    /\ ghost' = [ghost EXCEPT !.reordered = @ \/ node'.children # node.children]
    /\ UNCHANGED <<pos, pc, arg, out, drained, calls, wpc, thr, app>>

SortByPolicy ==
    /\ node.children # <<>>
    /\ node' = sort_children_by_policy(node)
    /\ ghost' = [ghost EXCEPT !.reordered = @ \/ node'.children # node.children]
    /\ UNCHANGED <<pos, pc, arg, out, drained, calls, wpc, thr, app>>

\* The positions of the specification of concurrent expansion: every thread
\* searches, the network is sure of its move.
Positions ==
    [passes : 1..2, to_move : Colors, legal : {Vertices}, sai : {FALSE},
     results : {PeakedResults}, threads : {Workers}]

\* The positions of the specification of repeated expansion: one thread, any
\* network.
LinkPositions ==
    [passes : {0}, to_move : Colors, legal : SUBSET Vertices, sai : BOOLEAN,
     results : {Netresults}, threads : {{1}}]

NodeAt(positions) ==
    /\ node = NewNode
    /\ pos \in positions
    /\ pc = [w \in Workers |-> "idle"]
    /\ arg = [w \in Workers |-> 0]
    /\ out = [w \in Workers |-> 0]
    /\ ghost = [w |-> [w \in Workers |-> NoGhost], halted |-> FALSE,
                links |-> 0, dropped |-> <<0, 1>>, reordered |-> FALSE,
                upd |-> NoUpdates, nodelist |-> <<>>, ratio |-> 0]
    /\ drained = FALSE
    /\ calls = 0
    /\ wpc = "idle"
    /\ thr = [w \in Workers |-> IdleThread]

InitAt(positions) == NodeAt(positions) /\ app = NoCall

Init == InitAt(Positions)

Next ==
    \/ \E w \in Workers : Call(w)
    \/ \E w \in Workers : CheckExpandable(w)
    \/ \E w \in Workers : EvalLink(w)
    \/ \E w \in Workers : EvalHalt(w)
    \/ \E w \in Workers : EvalError(w)
    \/ \E w \in Workers : Backup(w)
    \/ \E w \in Workers : Done(w)
    \/ Drain
    \/ Resume
    \/ ClearExpandState

Spec == Init /\ [][Next]_vars

\* Expansion with a driver that either keeps
\* count_nodes_and_clear_expand_state between two searches or runs it while
\* workers are inside create_children: app.in.clear_during says which, and
\* app.out that it has run during an expansion (it visits a node once).
ClearDuringExpansion ==
    /\ app.op = "search"
    /\ app.in.clear_during
    /\ ~app.out
    /\ \E w \in Workers : pc[w] \in Inside
    /\ expandable(node, 0)
    /\ node.expand_state # "INITIAL"
    /\ node' = [node EXCEPT !.expand_state = "INITIAL"]
    /\ app' = [app EXCEPT !.out = TRUE]
    /\ UNCHANGED <<pos, pc, arg, out, ghost, drained, calls, wpc, thr>>

ClearPositions ==
    [passes : {1}, to_move : {"BLACK"}, legal : {Vertices}, sai : {FALSE},
     results : {PeakedResults}, threads : {Workers}]

ClearInit ==
    /\ NodeAt(ClearPositions)
    /\ app \in {[op |-> "search", in |-> [clear_during |-> b],
                 done |-> FALSE, out |-> FALSE] : b \in BOOLEAN}

ClearNext == Next \/ ClearDuringExpansion

ClearSpec == ClearInit /\ [][ClearNext]_vars

\* Concurrent expansion at positions where every intersection is legal or
\* none is, with any policy the network may answer.
ExpandPositions ==
    [passes : {0}, to_move : {"BLACK"}, legal : {{}, Vertices},
     sai : {FALSE}, results : {{r \in Netresults : r.value = 1}},
     threads : {Workers}]

ExpandInit == InitAt(ExpandPositions)

ExpandSpec == ExpandInit /\ [][Next]_vars

\* Repeated expansion of one node by one thread.
LinkInit == InitAt(LinkPositions)

LinkNext ==
    \/ \E w \in Workers : Call(w)
    \/ \E w \in Workers : CheckExpandable(w)
    \/ \E w \in Workers : EvalLink(w)
    \/ \E w \in Workers : Backup(w)
    \/ \E w \in Workers : Done(w)
    \/ ClearExpandState

LinkSpec == LinkInit /\ [][LinkNext]_vars

\* Repeated expansion of one node by one thread at a position with several
\* candidates.
RelinkPositions ==
    [passes : {0}, to_move : {"BLACK"}, legal : {{}}, sai : {FALSE},
     results : {{}}, threads : {{1}}]

RelinkInit == InitAt(RelinkPositions)

RelinkNext ==
    \/ \E w \in Workers : Call(w)
    \/ \E w \in Workers : CheckExpandable(w)
    \/ \E w \in Workers : WideEvalLink(w)
    \/ \E w \in Workers : Backup(w)
    \/ \E w \in Workers : Done(w)
    \/ ClearExpandState

RelinkSpec == RelinkInit /\ [][RelinkNext]_vars

\* A function applied on its own to the arguments args: the node and the
\* threads stay as constructed.
CallOf(op, args) ==
    /\ NodeAt(RelinkPositions)
    /\ app \in {[op |-> op, in |-> i, done |-> FALSE, out |-> <<>>] : i \in args}

Returns(op, result) ==
    /\ app.op = op
    /\ ~app.done
    /\ app' = [app EXCEPT !.done = TRUE, !.out = result]
    /\ UNCHANGED <<node, pos, pc, arg, out, ghost, drained, calls, wpc, thr>>

\* The pass decision of create_children: the candidate counts around
\* max(5, BOARD_SIZE), every winrate in tenths, a board score behind, level
\* or ahead.
PassArgs ==
    [dumbpass : BOOLEAN,
     nodelist_size : (BOARD_SIZE - PassMargin)..(BOARD_SIZE + PassMargin),
     stm_eval : 0..10,
     relative_score : -1..1]

PassInit == CallOf("allow_pass", PassArgs)

PassNext ==
    Returns("allow_pass",
            allow_pass(app.in.dumbpass, app.in.nodelist_size,
                       app.in.stm_eval, app.in.relative_score))

PassSpec == PassInit /\ [][PassNext]_vars

\* The children a node may have when an unvisited child is scored: each
\* valid or not, with up to MaxUpdates visits of which any number were won
\* by black, the k-th of prior 1 / (k + 1).
ScoredChildren ==
    {cs \in [1..(NumVertices + 1) ->
                [valid : BOOLEAN, visits : 0..MaxUpdates,
                 blackevals : 0..MaxUpdates]] :
        \A k \in 1..(NumVertices + 1) : cs[k].blackevals <= cs[k].visits}

WithPriors(cs) ==
    [k \in 1..Len(cs) |->
        [move |-> k, policy |-> <<1, k + 1>>, valid |-> cs[k].valid,
         visits |-> cs[k].visits, blackevals |-> cs[k].blackevals]]

\* The first-play-urgency options: reductions of 0 or 1.
FpuOptions ==
    [fpuavg : BOOLEAN, fpuzero : BOOLEAN, fpu_reduction : 0..1,
     fpu_root_reduction : 0..1]

FpuArgs ==
    [children : {WithPriors(cs) : cs \in ScoredChildren}, color : Colors,
     is_root : BOOLEAN, cfg : FpuOptions]

FpuInit == CallOf("get_fpu_eval", FpuArgs)

FpuNext ==
    Returns("get_fpu_eval",
            get_fpu_eval(app.in.children, app.in.color, app.in.is_root,
                         app.in.cfg))

FpuSpec == FpuInit /\ [][FpuNext]_vars

\* The children of a root when the search has ended: each unvisited, visited
\* once or visited three times, with any number of the visits won by black,
\* a prior of 1/2 or 1/3, and a lower confidence bound of rank 0 or 1.
RootChild ==
    {c \in [visits : {0, 1, 3}, blackevals : 0..3, policy : {<<1, 2>>, <<1, 3>>},
            lcb : 0..1] :
        /\ c.blackevals <= c.visits
        /\ (c.visits < 2 => c.lcb = 0)}

RootOptions == [uselcb : BOOLEAN, lcb_min_visit_ratio : {<<0, 1>>, <<1, 1>>}]

RootArgs ==
    [children : [1..(NumVertices + 1) -> RootChild], color : Colors,
     cfg : RootOptions]

RootInit == CallOf("get_best_root_child", RootArgs)

RootNext ==
    Returns("get_best_root_child",
            get_best_root_child(app.in.children, app.in.color, app.in.cfg))

RootSpec == RootInit /\ [][RootNext]_vars

\* The game states the evaluator is given: a board of the build's size.
EvalStates(boards, movenums) ==
    [board : boards, to_move : Colors, movenum : movenums, komi_adj : {1},
     boardsize : {BoardSide}]

\* The boards with at most n stones, and with at most n stones, all black.
BoardsOf(n) ==
    {b \in [Indices -> Cells] :
        Cardinality({v \in Indices : b[v] # "EMPTY"}) <= n}

BlackBoardsOf(n) == {b \in BoardsOf(n) : \A v \in Indices : b[v] # "WHITE"}

\* The loaded networks: a SAI network, an ELF network, and a SAI network
\* whose file has the ELF version bit.
Networks ==
    {[is_sai |-> TRUE, value_head_not_stm |-> FALSE],
     [is_sai |-> FALSE, value_head_not_stm |-> TRUE],
     [is_sai |-> TRUE, value_head_not_stm |-> TRUE]}

CacheOptions == [noise : BOOLEAN, random_cnt : 0..1]

\* The cache after an earlier get_output inserted its result for state.
CacheOf(state, net) ==
    get_hash(state) :>
        get_output([state |-> state, ensemble |-> "DIRECT",
                    symmetry |-> IDENTITY_SYMMETRY,
                    read_cache |-> FALSE, write_cache |-> TRUE,
                    cache |-> <<>>,
                    cfg |-> [noise |-> FALSE, random_cnt |-> 0],
                    net |-> net], IDENTITY_SYMMETRY).result

\* The caches that hold the position one of the symmetries syms makes of
\* state.
CachesOf(state, syms, net) ==
    {CacheOf(st, net) :
        st \in {[state EXCEPT !.board = SymBoard(state.board, sym)] :
                   sym \in syms}}

Ensembles ==
    {[ensemble |-> "DIRECT", symmetry |-> IDENTITY_SYMMETRY],
     [ensemble |-> "DIRECT", symmetry |-> NUM_SYMMETRIES - 1],
     [ensemble |-> "AVERAGE", symmetry |-> -1],
     [ensemble |-> "RANDOM_SYMMETRY", symmetry |-> -1]}

\* get_output on a position of at most one stone, with the cache empty or
\* holding the position or one symmetric to it.
OutputArgs ==
    UNION {{[state |-> st, ensemble |-> e.ensemble, symmetry |-> e.symmetry,
             read_cache |-> r, write_cache |-> w, cache |-> cache,
             cfg |-> cfg, net |-> net] :
               e \in Ensembles, r \in BOOLEAN, w \in BOOLEAN,
               cache \in {<<>>} \cup CachesOf(st, Symmetries, net),
               cfg \in CacheOptions} :
           st \in EvalStates(BlackBoardsOf(1), 0..MaxMovenum),
           net \in Networks}

CacheInit == CallOf("get_output", OutputArgs)

\* The symmetries randfix<NUM_SYMMETRIES>() may draw in a call of ensemble e
\* (none is drawn but for RANDOM_SYMMETRY).
RandomSymmetries(e) ==
    IF e = "RANDOM_SYMMETRY" THEN Symmetries ELSE {IDENTITY_SYMMETRY}

CacheNext ==
    /\ app.op = "get_output"
    /\ \E rand_sym \in RandomSymmetries(app.in.ensemble) :
          Returns("get_output", get_output(app.in, rand_sym))

CacheSpec == CacheInit /\ [][CacheNext]_vars

\* probe_cache in the early opening on a position of at most two stones,
\* with the cache holding a position symmetric to it; get_output_internal
\* on such a position under every symmetry.
ProbeArgs ==
    UNION {{[state |-> st, cache |-> cache,
             cfg |-> [noise |-> FALSE, random_cnt |-> 0], net |-> net] :
               cache \in CachesOf(st, 1..(NUM_SYMMETRIES - 1), net)} :
           st \in EvalStates(BoardsOf(2), {0}), net \in Networks}

InternalArgs ==
    [state : EvalStates(BoardsOf(2), {0}), symmetry : Symmetries,
     net : Networks]

SymmetryInit ==
    \/ CallOf("probe_cache", ProbeArgs)
    \/ CallOf("get_output_internal", InternalArgs)
    \/ CallOf("initialize", {NUM_INTERSECTIONS})

SymmetryNext ==
    \/ Returns("probe_cache",
               probe_cache(app.in.state, app.in.cache, app.in.cfg))
    \/ Returns("get_output_internal",
               get_output_internal(app.in.state, app.in.symmetry, app.in.net))
    \/ Returns("initialize", PrepareSymmetryTable)

SymmetrySpec == SymmetryInit /\ [][SymmetryNext]_vars

\* Concurrent expansion with a thread in wait_expanded, under the fairness of
\* a scheduler that lets every thread run, and with evaluator calls that end
\* (a worker is not for ever at its evaluator call).
WaitNext == Next \/ WaitCall \/ WaitReturn

\* The same interleavings without the fairness.
WaitSpec == Init /\ [][WaitNext]_vars

FairSpec ==
    /\ Init
    /\ [][WaitNext]_vars
    /\ \A w \in Workers :
          /\ WF_vars(CheckExpandable(w) \/ Backup(w) \/ Done(w))
          /\ []<>(pc[w] # "eval")
    /\ WF_vars(WaitReturn)

\* Descents, repeated expansion and sorting on one node and its children.
SearchPositions ==
    [passes : {0}, to_move : Colors, legal : {Vertices}, sai : {FALSE},
     results : {PeakedResults}, threads : {{1}}]

SearchInit == InitAt(SearchPositions)

SearchNext ==
    \/ LinkNext
    \/ \E i \in 1..(NumVertices + 1) : Descend(i)
    \/ \E color \in Colors : Sort(color)
    \/ SortByPolicy

SearchSpec == SearchInit /\ [][SearchNext]_vars

\* Concurrent update calls on one node.
UpdatePositions ==
    [passes : {0}, to_move : {"BLACK"}, legal : {Vertices}, sai : BOOLEAN,
     results : {Netresults}, threads : {Workers}]

UpdateInit == InitAt(UpdatePositions)

UpdateNext ==
    \/ \E w \in Workers : UpdateCall(w)
    \/ \E w \in Workers : UpdateOldEval(w)
    \/ \E w \in Workers : UpdateOldVisits(w)
    \/ \E w \in Workers : UpdateVisits(w)
    \/ \E w \in Workers : UpdateEval(w)
    \/ \E w \in Workers : UpdateDiff(w)
    \/ \E w \in Workers : UpdateForced(w)
    \/ \E w \in Workers : UpdateReturn(w)

UpdateSpec == UpdateInit /\ [][UpdateNext]_vars

\* UCTNode::get_denom, one atomic load at a step.  The operands of
\* 1 + m_visits - m_forced are loaded in the order the compiler chose:
\* visits_first says which.
NoDenom == [loads |-> 0, first |-> 0, denom |-> 0]

\* get_denom loads its first operand; without cfg_laddercode it is the only
\* one and the call returns 1 + m_visits.
DenomFirst ==
    /\ app.op = "get_denom"
    /\ ~app.done
    /\ app.out.loads = 0
    /\ app' = IF ~app.in.cfg_laddercode
              THEN [app EXCEPT !.done = TRUE,
                               !.out = [loads |-> 1, first |-> node.visits,
                                        denom |-> 1 + node.visits]]
              ELSE [app EXCEPT !.out.loads = 1,
                               !.out.first = IF app.in.visits_first
                                             THEN node.visits
                                             ELSE node.forced]
    /\ UNCHANGED <<node, pos, pc, arg, out, ghost, drained, calls, wpc, thr>>

\* get_denom loads its second operand and returns 1 + m_visits - m_forced.
DenomSecond ==
    /\ app.op = "get_denom"
    /\ ~app.done
    /\ app.out.loads = 1
    /\ app' = [app EXCEPT
                  !.done = TRUE,
                  !.out.loads = 2,
                  !.out.denom = IF app.in.visits_first
                                THEN 1 + app.out.first - node.forced
                                ELSE 1 + node.visits - app.out.first]
    /\ UNCHANGED <<node, pos, pc, arg, out, ghost, drained, calls, wpc, thr>>

\* A call of get_denom on a node that other threads update.
DenomInit ==
    /\ NodeAt(UpdatePositions)
    /\ app \in {[op |-> "get_denom", in |-> i, done |-> FALSE,
                 out |-> NoDenom] :
                   i \in [cfg_laddercode : BOOLEAN, visits_first : BOOLEAN]}

DenomNext == UpdateNext \/ DenomFirst \/ DenomSecond

DenomSpec == DenomInit /\ [][DenomNext]_vars

\* Network::benchmark(state, iterations) with cfg_num_threads = cpus: the
\* shared run counter, the evaluations made, and where each task is.
MaxIterations == 3

BenchArgs == [iterations : 0..MaxIterations, cpus : Workers]

BenchStart(cpus) ==
    [runcount |-> 0, evals |-> 0,
     task |-> [w \in Workers |-> IF w <= cpus THEN "test" ELSE "none"]]

BenchInit ==
    /\ NodeAt(RelinkPositions)
    /\ app \in {[op |-> "benchmark", in |-> i, done |-> FALSE,
                 out |-> BenchStart(i.cpus)] : i \in BenchArgs}

BenchStep(w, from, to, runcount, evals) ==
    /\ app.op = "benchmark"
    /\ ~app.done
    /\ app.out.task[w] = from
    /\ app' = [app EXCEPT !.out.task[w] = to, !.out.runcount = runcount,
                          !.out.evals = evals]
    /\ UNCHANGED <<node, pos, pc, arg, out, ghost, drained, calls, wpc, thr>>

\* "while (runcount < iterations)": one load of the counter.
BenchTest(w) ==
    BenchStep(w, "test",
              IF app.out.runcount < app.in.iterations THEN "inc" ELSE "exit",
              app.out.runcount, app.out.evals)

\* "runcount++".
BenchIncrement(w) ==
    BenchStep(w, "inc", "eval", app.out.runcount + 1, app.out.evals)

\* "get_output(state, Ensemble::RANDOM_SYMMETRY, -1, false)".
BenchEval(w) ==
    BenchStep(w, "eval", "test", app.out.runcount, app.out.evals + 1)

\* tg.wait_all(): every task has left its loop.
BenchJoin ==
    /\ app.op = "benchmark"
    /\ ~app.done
    /\ \A w \in Workers : app.out.task[w] \in {"exit", "none"}
    /\ app' = [app EXCEPT !.done = TRUE]
    /\ UNCHANGED <<node, pos, pc, arg, out, ghost, drained, calls, wpc, thr>>

BenchNext ==
    \/ \E w \in Workers : BenchTest(w)
    \/ \E w \in Workers : BenchIncrement(w)
    \/ \E w \in Workers : BenchEval(w)
    \/ BenchJoin

BenchSpec == BenchInit /\ [][BenchNext]_vars

\* Concurrent descents through one node, with their virtual losses.
LossNext ==
    \/ \E w \in Workers : Select(w)
    \/ \E w \in Workers : VisitBackup(w)
    \/ \E w \in Workers : Undo(w)

LossSpec == UpdateInit /\ [][LossNext]_vars

(***************************************************************************)
(* Properties of concurrent expansion (Spec).                              *)
(***************************************************************************)

Expanding == {w \in Workers : pc[w] \in Inside}

\* C1: of the workers that call create_children on one node at most one
\* holds the expansion at a time, and the node is EXPANDING while it does; a
\* worker calls the evaluator or writes to the node only if its exchange
\* succeeded; a worker whose exchange failed returned false.
C1_ExclusiveHolder ==
    /\ Cardinality(Expanding) <= 1
    /\ \A w \in Expanding : node.expand_state = "EXPANDING"
    /\ \A w \in Workers :
          /\ (ghost.w[w].evals > 0 \/ ghost.w[w].wrote) => ghost.w[w].won
          /\ (pc[w] \in Outside \ {"idle"} /\ ~ghost.w[w].won) => pc[w] = "false"

\* C1, the steps: the exchange never succeeds on a node that is EXPANDING,
\* and a call whose exchange did not succeed leaves the node as it is.
C1_ExclusiveStep ==
    /\ \A w \in Workers :
          (pc[w] \in Outside /\ pc'[w] = "acquired") =>
              (node.expand_state = "INITIAL" /\ node'.expand_state = "EXPANDING")
    /\ (calls' # calls /\ \A w \in Workers :
                              pc[w] \in Outside => pc'[w] # "acquired")
          => node' = node

\* C1: exactly one worker at a time holds the expansion of a node, and the
\* workers that lose the exchange return false and leave the node alone.
C1_Exclusive == []C1_ExclusiveHolder /\ [][C1_ExclusiveStep]_vars

\* C1's case: a worker lost the exchange while another holds the expansion.
C1_Witness ==
    \E w, v \in Workers :
        /\ pc[w] \in Inside
        /\ pc[v] = "false" /\ ~ghost.w[v].won
        /\ pos.passes < 2

\* C2: when the evaluator throws NetworkHaltException the call leaves the
\* node as it found it, in state INITIAL, with no child added and visits and
\* accumulators unchanged, leaves the caller's output parameters alone and
\* rethrows.
C2_HaltStep ==
    \A w \in Workers :
        (pc[w] = "eval" /\ pc'[w] \notin {"eval", "update", "error"}) =>
            /\ pc'[w] = "halt"
            /\ ghost.w[w].snap.expand_state = "INITIAL"
            /\ node' = ghost.w[w].snap
            /\ out' = out

\* C2: every halt of the evaluator restores the node and rethrows.
C2_HaltRestores == [][C2_HaltStep]_vars

\* C2's case: after a halt (and resume_evals) a later call expanded the node.
C2_Witness ==
    /\ ghost.halted
    /\ ~drained
    /\ node.expand_state = "EXPANDED"
    /\ node.children # <<>>
    /\ node.visits = 1

\* C3: a node in EXPANDING has a worker expanding it.
C3_NoOrphan ==
    node.expand_state = "EXPANDING" => Expanding # {}

\* C4: a thread in wait_expanded eventually returns from it.
C4_WaitReturns == (wpc = "waiting") ~> (wpc = "returned")

\* C9: with two passes played, every create_children call has returned
\* false, none has called the evaluator, and the node and the callers' output
\* parameters are as they were.
C9_FinalState ==
    pos.passes >= 2 =>
        /\ node = NewNode
        /\ \A w \in Workers :
              /\ pc[w] \in {"idle", "false"}
              /\ out[w] = 0
              /\ ghost.w[w].evals = 0

\* C9's case: two passes played and a call has returned.
C9_Witness == pos.passes >= 2 /\ \E w \in Workers : pc[w] = "false"

(***************************************************************************)
(* Properties of the children's priors (LinkSpec).                         *)
(***************************************************************************)

ChildPriors(n) == [k \in 1..Len(n.children) |-> n.children[k].policy]

\* C10, as claimed: after a successful create_children the priors of the
\* node's children sum to 1.
C10_PriorsSumToOne ==
    (\E w \in Workers : pc[w] = "true") =>
        FracSum(ChildPriors(node)) = <<1, 1>>

\* C10, amended: after the first expansion of a node the priors of its
\* children and the priors of the candidates dropped for min_psa_ratio sum
\* to 1 together.
C10_PriorsWithDropped ==
    ghost.links = 1 =>
        FracAdd(FracSum(ChildPriors(node)), ghost.dropped) = <<1, 1>>

\* C10's case: an expansion succeeded and dropped a candidate of positive
\* prior.
C10_Witness ==
    /\ ghost.links = 1
    /\ \E w \in Workers : pc[w] = "true"
    /\ node.children # <<>>
    /\ ghost.dropped # <<0, 1>>

(***************************************************************************)
(* Properties of the child list and of the visits (SearchSpec).            *)
(***************************************************************************)

Moves(n) == [k \in 1..Len(n.children) |-> n.children[k].move]

\* The children of n as <<move, prior>>, and how often n has such a child.
ChildKeys(n) ==
    {<<n.children[k].move, n.children[k].policy>> : k \in 1..Len(n.children)}

CountOf(n, c) ==
    Cardinality({k \in 1..Len(n.children) :
                    <<n.children[k].move, n.children[k].policy>> = c})

\* C5, as claimed: between two states in which the node is EXPANDED no step
\* changes the child list (no append, no removal, no reorder).
C5_ListStep ==
    (node.expand_state = "EXPANDED" /\ node'.expand_state = "EXPANDED") =>
        Moves(node') = Moves(node)

C5_ChildrenStep ==
    /\ \A c \in ChildKeys(node) : CountOf(node', c) >= CountOf(node, c)
    /\ Len(node'.children) # Len(node.children) =>
          /\ node.expand_state = "EXPANDING"
          /\ \E w \in Workers : pc[w] = "eval" /\ pc'[w] = "update"
    /\ (node.expand_state = "EXPANDED" /\ node'.expand_state = "EXPANDED") =>
          \A c \in ChildKeys(node') : CountOf(node', c) = CountOf(node, c)

ChildVisits(n) == SumSeq([k \in 1..Len(n.children) |-> n.children[k].visits])

\* C6: when the node is EXPANDED and no worker is inside create_children
\* (a descent is one step), the visits of the node are the visits of its
\* children, or one more.
C6_VisitBalance ==
    (node.expand_state = "EXPANDED" /\ \A w \in Workers : pc[w] \in Outside) =>
        /\ ChildVisits(node) <= node.visits
        /\ node.visits <= ChildVisits(node) + 1

(***************************************************************************)
(* The expand state under count_nodes_and_clear_expand_state (ClearSpec).  *)
(***************************************************************************)

\* A step in which worker w runs expand_done or expand_cancel.
EndsExpansion(w) ==
    \/ pc[w] = "acquired" /\ pc'[w] = "false"
    \/ pc[w] = "done" /\ pc'[w] = "true"
    \/ pc[w] = "eval" /\ pc'[w] = "halt"

\* expand_done and expand_cancel run on a node that is EXPANDING, and while
\* a worker holds the expansion only that worker writes the expand state.
HolderStep ==
    /\ \A w \in Workers :
          EndsExpansion(w) => node.expand_state = "EXPANDING"
    /\ ((\E w \in Workers : pc[w] \in Inside)
            /\ node'.expand_state # node.expand_state)
          => \E w \in Workers : pc[w] \in Inside /\ EndsExpansion(w)

C35_ExpandedHasChild ==
    /\ node.expand_state = "EXPANDED" =>
          (Len(node.children) >= 1 /\ node.visits >= 1)
    /\ ghost.links >= 1 => Len(ghost.nodelist) >= 1
    /\ ghost.links = 1 =>
          \E k \in 1..Len(node.children) :
              node.children[k].move = ghost.nodelist[1].second

\* C35's case: a position without a legal intersection, whose only
\* candidate is the pass, has been expanded after a cancelled expansion.
C35_Witness ==
    /\ node.expand_state = "EXPANDED"
    /\ pos.legal = {}
    /\ ghost.halted
    /\ Len(node.children) = 1
    /\ node.children[1].move = PASS

(***************************************************************************)
(* Properties of concurrent updates (UpdateSpec).                          *)
(***************************************************************************)

\* C7: when every update call has returned, visits counts the calls, forced
\* the forced ones, blackevals is the sum of their evals and pi_sum the sum
\* of their raw evals.
C7_NoLostUpdate ==
    (\A w \in Workers : thr[w].pc = "idle") =>
        /\ node.visits = ghost.upd.n
        /\ node.forced = ghost.upd.k
        /\ node.blackevals = ghost.upd.evals
        /\ node.pi_sum = ghost.upd.raws

\* C7's case: calls that overlapped have all returned, one of them forced,
\* with evals and raw evals that differ.
C7_Witness ==
    /\ \A w \in Workers : thr[w].pc = "idle"
    /\ ghost.upd.overlap
    /\ ghost.upd.n = MaxUpdates
    /\ ghost.upd.k = 1
    /\ ghost.upd.evals # ghost.upd.raws

\* C32: when every update call has returned, squared_eval_diff is what the
\* same updates give one after the other: the sum of the squared deviations
\* of the evals from their mean, which for evals e with e * e = e is
\* S * (n - S) / n, S being their sum and n their number.
C32_SequentialDiff ==
    ((\A w \in Workers : thr[w].pc = "idle") /\ ghost.upd.n > 0) =>
        node.squared_eval_diff
            = Frac(ghost.upd.evals * (ghost.upd.n - ghost.upd.evals),
                   ghost.upd.n)

\* C31: with cfg_laddercode the denominator get_denom returns is at least
\* 1, whatever updates run between its two loads (DenomSpec).
C31_DenomPositive ==
    (app.op = "get_denom" /\ app.done /\ app.in.cfg_laddercode) =>
        app.out.denom >= 1

(***************************************************************************)
(* Properties of the virtual loss (LossSpec).                              *)
(***************************************************************************)

\* The descents whose virtual loss is pending on the node.
Pending == {w \in Workers : thr[w].pc \in {"descending", "backed"}}

\* n after k visits that color lost.
RECURSIVE LostVisits(_, _, _)
LostVisits(n, color, k) ==
    IF k = 0 THEN n
    ELSE LostVisits(update(n, IF color = "BLACK" THEN 0 ELSE 1, 0, FALSE),
                    color, k - 1)

\* C8: the counter is VIRTUAL_LOSS_COUNT for every pending descent, so
\* never negative and 0 when none is pending; get_eval for a colour is the
\* eval of the node without virtual loss after VIRTUAL_LOSS_COUNT visits lost
\* by that colour for every pending descent, and is the eval without virtual
\* loss when none is pending.
C8_LossCounted ==
    /\ node.virtual_loss = VIRTUAL_LOSS_COUNT * Cardinality(Pending)
    /\ node.virtual_loss >= 0
    /\ \A color \in Colors :
          node.visits + node.virtual_loss > 0 =>
              get_eval(node, color) =
                  get_raw_eval(LostVisits([node EXCEPT !.virtual_loss = 0],
                                          color, VIRTUAL_LOSS_COUNT *
                                                   Cardinality(Pending)),
                               color, 0)
    /\ \A color \in Colors :
          (Pending = {} /\ node.visits > 0) =>
              get_eval(node, color) = get_raw_eval(node, color, 0)

\* C8, the steps: virtual_loss and virtual_loss_undo change the counter and
\* nothing else of the node.
C8_LossStep ==
    Pending' # Pending => node' = [node EXCEPT !.virtual_loss = node'.virtual_loss]

\* C8: virtual losses are counted per pending descent, read by get_eval as
\* lost visits, and touch the counter alone.
C8_VirtualLoss == []C8_LossCounted /\ [][C8_LossStep]_vars

\* C8's case: two descents are pending on a node that has won and lost
\* visits, and white's eval with the virtual loss is below white's eval
\* without.
C8_Witness ==
    /\ Cardinality(Pending) = 2
    /\ node.visits = 2
    /\ node.blackevals = 1
    /\ PriorLess(get_eval(node, "WHITE"), get_raw_eval(node, "WHITE", 0))

(***************************************************************************)
(* Properties of the children after an expansion (LinkSpec, RelinkSpec).   *)
(***************************************************************************)

\* C11: after every successful create_children the child list is in
\* non-increasing order of prior, also after a second expansion with a lower
\* min_psa_ratio whose evaluator output differs from the first one's.
C11_SortedByPrior ==
    (\E w \in Workers : pc[w] = "true") =>
        \A k \in 1..(Len(node.children) - 1) :
            ~PriorLess(node.children[k].policy, node.children[k + 1].policy)

\* The last expansion dropped a candidate for being below max_prior * r.
SomeDropped ==
    /\ ghost.nodelist # <<>>
    /\ SkippedChildren(ghost.nodelist, ghost.nodelist[1].first, ghost.ratio)

\* The candidate moves of the last expansion whose prior is not below
\* max_prior * r.
KeptMoves ==
    {ghost.nodelist[k].second :
        k \in {j \in 1..Len(ghost.nodelist) :
                  ~BelowRatio(ghost.nodelist[j].first,
                              ghost.nodelist[1].first, ghost.ratio)}}

\* C12: after a successful create_children with ratio r the child moves are
\* exactly the candidate moves whose prior is >= max_prior * r, each of them
\* once, also when the node had been expanded before with a higher ratio.
C12_ExactChildren ==
    (\E w \in Workers : pc[w] = "true") =>
        /\ {node.children[k].move : k \in 1..Len(node.children)} = KeptMoves
        /\ Cardinality(KeptMoves) = Len(node.children)

\* C13: after a successful create_children with ratio r, expandable(r') is
\* true exactly for r' < r if a candidate was dropped for being below
\* max_prior * r, and false for every r' >= 0 if none was.
C13_Expandable ==
    (\E w \in Workers : pc[w] = "true") =>
        \A r \in 0..InitRatio :
            expandable(node, r) <=> (SomeDropped /\ r < ghost.ratio)

\* C13's cases: an expansion that dropped a candidate, one that dropped none.
C13_Witness ==
    /\ \E w \in Workers : pc[w] = "true"
    /\ SomeDropped
    /\ ghost.ratio > 0
    /\ expandable(node, 0)
    /\ ~expandable(node, ghost.ratio)

(***************************************************************************)
(* The pass candidate (PassSpec).                                          *)
(***************************************************************************)

C15_FpuZero ==
    (app.op = "get_fpu_eval" /\ app.done /\ app.in.cfg.fpuzero) =>
        /\ app.out.eval = <<0, 1>>
        /\ (app.out.reduction = 0 \/ app.out.radicand = <<0, 1>>)

(***************************************************************************)
(* The best root child (RootSpec).                                         *)
(***************************************************************************)

\* Both children have more than lcb_min visits (at least 2) and the lower
\* confidence bounds are in use.
LcbCompared(a, b) ==
    LET lcb_min == Max(2, (app.in.cfg.lcb_min_visit_ratio[1]
                             * MaxVisits(app.in.children))
                          \div app.in.cfg.lcb_min_visit_ratio[2])
    IN  app.in.cfg.uselcb /\ a.visits > lcb_min /\ b.visits > lcb_min

EvalOf(a) == IF a.visits = 0 THEN <<0, 1>> ELSE get_raw_eval(a, app.in.color, 0)

\* b beats a under the order lower confidence bound, visits, prior, eval.
BeatsAsClaimed(a, b) ==
    IF LcbCompared(a, b) /\ a.lcb # b.lcb THEN a.lcb < b.lcb
    ELSE IF a.visits # b.visits THEN a.visits < b.visits
    ELSE IF a.policy # b.policy THEN PriorLess(a.policy, b.policy)
    ELSE PriorLess(EvalOf(a), EvalOf(b))

\* b beats a under the order lower confidence bound, visits, and between
\* children of equal visits the prior if they are unvisited, the eval if not.
Beats(a, b) ==
    IF LcbCompared(a, b) /\ a.lcb # b.lcb THEN a.lcb < b.lcb
    ELSE IF a.visits # b.visits THEN a.visits < b.visits
    ELSE IF a.visits = 0 THEN PriorLess(a.policy, b.policy)
    ELSE PriorLess(EvalOf(a), EvalOf(b))

MostVisited(k) ==
    \A j \in 1..Len(app.in.children) :
        app.in.children[j].visits <= app.in.children[k].visits

\* C16, as claimed: no child beats the child get_best_root_child returns
\* under the order lower confidence bound (when enabled and both children
\* have more than lcb_min visits), visits, prior, eval; with the bounds
\* disabled the child returned has the most visits.
C16_BestAsClaimed ==
    (app.op = "get_best_root_child" /\ app.done) =>
        /\ \A j \in 1..Len(app.in.children) :
               ~BeatsAsClaimed(app.in.children[app.out], app.in.children[j])
        /\ (~app.in.cfg.uselcb => MostVisited(app.out))

\* C16, amended: the same with the order lower confidence bound, visits,
\* then prior between unvisited children and eval between visited ones.
C16_BestChild ==
    (app.op = "get_best_root_child" /\ app.done) =>
        /\ \A j \in 1..Len(app.in.children) :
               ~Beats(app.in.children[app.out], app.in.children[j])
        /\ (~app.in.cfg.uselcb => MostVisited(app.out))

\* C16's case: the child returned has as many visits as another child, a
\* smaller prior and a larger eval.
C16_Witness ==
    /\ app.op = "get_best_root_child"
    /\ app.done
    /\ \E j \in 1..Len(app.in.children) :
          /\ j # app.out
          /\ app.in.children[j].visits = app.in.children[app.out].visits
          /\ app.in.children[j].visits > 0
          /\ PriorLess(app.in.children[app.out].policy,
                       app.in.children[j].policy)
          /\ PriorLess(EvalOf(app.in.children[j]),
                       EvalOf(app.in.children[app.out]))

(***************************************************************************)
(* The evaluator and its cache (CacheSpec, SymmetrySpec).                  *)
(***************************************************************************)

C37_ExactlyIterations ==
    app.op = "benchmark" =>
        /\ app.out.runcount <= app.in.iterations
        /\ app.done => app.out.evals = app.in.iterations

\* C36: a call answered from the cache by the position's own hash returns
\* the Netresult of the call that put the entry in the cache, which is the
\* entry itself (get_output inserts what it returns).
C36_HitSameAsInserted ==
    (/\ app.op = "get_output"
     /\ app.done
     /\ app.out.hit
     /\ app.out.sym = IDENTITY_SYMMETRY
     /\ lookup(app.in.cache, get_hash(app.in.state))) =>
        app.out.result = app.in.cache[get_hash(app.in.state)]

\* The same, but for the SAI networks of an ELF file with white to move.
C36_HitSameButElfSai ==
    (/\ app.op = "get_output"
     /\ app.done
     /\ app.out.hit
     /\ app.out.sym = IDENTITY_SYMMETRY
     /\ lookup(app.in.cache, get_hash(app.in.state))
     /\ ~(/\ app.in.net.is_sai
          /\ app.in.net.value_head_not_stm
          /\ app.in.state.to_move = "WHITE")) =>
        app.out.result = app.in.cache[get_hash(app.in.state)]

\* The cache was consulted and does not hold the position's own hash.
DirectMiss ==
    /\ app.op = "get_output"
    /\ app.done
    /\ app.out.consulted
    /\ ~lookup(app.in.cache, get_hash(app.in.state))

\* C18, as claimed: when the direct lookup misses, the symmetric hashes are
\* probed exactly when the move number is at or beyond the opening cutoff.
C18_ProbedPastOpening ==
    DirectMiss =>
        (app.out.lookups > 0 <=> app.in.state.movenum >= OpeningMoves \div 2)

\* C18, amended: when the direct lookup misses, the symmetric hashes are
\* probed exactly when noise and random_cnt are off and the move number is
\* below the opening cutoff; all seven are probed unless one of them hits.
C18_ProbedInOpening ==
    DirectMiss =>
        /\ app.out.lookups > 0 <=>
               /\ ~app.in.cfg.noise
               /\ app.in.cfg.random_cnt = 0
               /\ app.in.state.movenum < OpeningMoves \div 2
        /\ (app.out.lookups > 0 /\ ~app.out.hit) =>
               app.out.lookups = NUM_SYMMETRIES - 1

\* C18's case: a miss at move 0 after which a symmetric hash hits.
C18_Witness ==
    /\ DirectMiss
    /\ app.in.state.movenum = 0
    /\ app.out.hit
    /\ app.out.lookups > 0

\* The index symmetry s sends index v to, from get_symmetry.
ImageOf(s, v) ==
    LET image == get_symmetry(<<v % BoardSide, v \div BoardSide>>, s, BoardSide)
    IN  (image[2] * BoardSide) + image[1]

\* probe_cache has found the entry of a symmetric position.
SymmetricHit ==
    /\ app.op = "probe_cache"
    /\ app.done
    /\ app.out.success
    /\ app.out.sym # IDENTITY_SYMMETRY

\* C19: on a symmetric hit with symmetry s probe_cache returns the cached
\* policy_pass, alpha, beta and beta2 unchanged, and at every vertex v the
\* mass the cached entry gives to the image of v, which is the policy of the
\* caller's own position.
C19_Permuted ==
    SymmetricHit =>
        LET cached == app.in.cache[get_symmetry_hash(app.in.state, app.out.sym)]
        IN  /\ app.out.result.policy_pass = cached.policy_pass
            /\ app.out.result.alpha = cached.alpha
            /\ app.out.result.beta = cached.beta
            /\ app.out.result.beta2 = cached.beta2
            /\ \A v \in Indices :
                   app.out.result.policy[v]
                       = cached.policy[ImageOf(app.out.sym, v)]
            /\ app.out.result.policy
                   = get_output_internal(app.in.state, IDENTITY_SYMMETRY,
                                         app.in.net).policy

\* C19's case: a hit with a symmetry that is not its own inverse, on a
\* policy that the symmetry changes.
C19_Witness ==
    /\ SymmetricHit
    /\ \E v \in Indices : ImageOf(app.out.sym, ImageOf(app.out.sym, v)) # v
    /\ app.out.result.policy
           # app.in.cache[get_symmetry_hash(app.in.state, app.out.sym)].policy
    /\ app.out.result.policy
           # SymBoard(app.in.cache[get_symmetry_hash(app.in.state,
                                                    app.out.sym)].policy,
                      app.out.sym)

\* C20: for every symmetry get_output_internal returns, for a network that
\* copies its first input plane to the policy, the policy that has at each
\* vertex what the board has there: 1 for a stone of the side to move.
C20_SameVertex ==
    (app.op = "get_output_internal" /\ app.done) =>
        \A v \in Indices :
            app.out.policy[v]
                = IF app.in.state.board[v] = app.in.state.to_move THEN 1 ELSE 0

\* C20's case: a symmetry that is not its own inverse, on a board that the
\* symmetry changes.
C20_Witness ==
    /\ app.op = "get_output_internal"
    /\ app.done
    /\ \E v \in Indices :
          ImageOf(app.in.symmetry, ImageOf(app.in.symmetry, v)) # v
    /\ app.out.policy # SymBoard(app.out.policy, app.in.symmetry)
    /\ \E v \in Indices : app.out.policy[v] = 1

(***************************************************************************)
(* The weights loader.  A weights file is its format version and the       *)
(* sequence of its tensor lines; of a line only the number of floats is    *)
(* read by the loader, an unparsable line being BadLine.  The loader state *)
(* L holds the stream position, the four-line buffer, the index id and the *)
(* network parameters discovered so far.                                   *)
(***************************************************************************)
POTENTIAL_MOVES == NUM_INTERSECTIONS + 1
BadLine == -1

WeightsSection ==
    <<"NONE", "INPUT_CONV", "RESCONV_TOWER", "POL_CONV_TOWER", "POL_DENSE",
      "VALUE_CONV", "VALUE_AVGPOOL", "VALUE_DENSE_TOWER", "VAL_DENSE_HIDDEN",
      "VAL_DENSE_OUT", "VBE_DENSE_HIDDEN", "VBE_DENSE_OUT">>

\* The position of a section in the enumeration.
SectionRank(section) ==
    CHOOSE k \in DOMAIN WeightsSection : WeightsSection[k] = section

\* The loader before the first block: WeightsFileIndex and the members of
\* Network as the header initialises them, the flags as load_network_file
\* has set them from the version.
NewLoader(file, ndebug, flags) ==
    [file |-> file, ndebug |-> ndebug, flags |-> flags, pos |-> 0,
     layer |-> <<0, 0, 0, 0>>, missing_lines |-> 0, outcome |-> "reading",
     layer_line |-> <<0, 0, 0, 0>>, stored |-> <<>>,
     id |-> [section |-> "NONE", previous |-> "NONE", line |-> 0,
             excess |-> 0, complete |-> FALSE],
     channels |-> 0, input_planes |-> 0, include_color |-> TRUE,
     input_moves |-> 0, policy_outputs |-> 0, policy_channels |-> 0,
     residual_blocks |-> 0, policy_conv_layers |-> 0,
     val_outputs |-> 1, val_pool_outputs |-> 0, val_dense_inputs |-> 0,
     value_channels |-> 0, val_chans |-> 0, vbe_chans |-> 0,
     value_head_rets |-> 0, val_head_rets |-> 0, vbe_head_rets |-> 0,
     value_head_type |-> "0",
     conv_biases |-> 0, conv_pol_b |-> 0, vh_dense_weights |-> 0,
     ip1_vbe_w |-> 0, ip2_vbe_w |-> 0, ip2_val_b |-> 0, conv_val_b |-> 0,
     sections |-> <<>>]

\* assert(ok): the build without NDEBUG aborts when ok is false.
Asserted(L, ok) ==
    IF ok \/ L.ndebug \/ L.outcome # "reading" THEN L
    ELSE [L EXCEPT !.outcome = "abort"]

\* exit(EXIT_FAILURE) when fatal holds.
ExitIf(L, fatal) ==
    IF fatal /\ L.outcome = "reading" THEN [L EXCEPT !.outcome = "exit"]
    ELSE L

\* Network::read_weights_line on the stream of L: the line is taken from
\* the stream, and is good when it parses as floats.
read_weights_line(L) ==
    L.pos < Len(L.file) /\ L.file[L.pos + 1] # BadLine

\* The loop of read_weights_block from buffer index i on.  layer_line has,
\* for each vector of the buffer, the line of the file it holds (0: none).
RECURSIVE ReadLayer(_, _)
ReadLayer(L, i) ==
    IF i >= 4 THEN L
    ELSE IF i < L.id.excess
    THEN ReadLayer([L EXCEPT !.layer[i + 1] = L.layer[4 - L.id.excess + i + 1],
                             !.layer_line[i + 1] =
                                 L.layer_line[4 - L.id.excess + i + 1]],
                   i + 1)
    ELSE IF read_weights_line(L)
    THEN ReadLayer([L EXCEPT !.layer[i + 1] = L.file[L.pos + 1],
                             !.layer_line[i + 1] = L.pos + 1,
                             !.pos = @ + 1, !.id.line = @ + 1], i + 1)
    ELSE ReadLayer([L EXCEPT !.layer[i + 1] = 0,
                             !.layer_line[i + 1] = 0,
                             !.pos = IF @ < Len(L.file) THEN @ + 1 ELSE @,
                             !.missing_lines = @ + 1], i + 1)

\* The section identify_layer moves to from section, given the buffer.
NextSection(section, layer, channels) ==
    CASE section = "NONE" -> "INPUT_CONV"
      [] section = "INPUT_CONV" -> "RESCONV_TOWER"
      [] section = "RESCONV_TOWER" ->
             IF layer[1] = channels * 9 * channels THEN "RESCONV_TOWER"
             ELSE "POL_CONV_TOWER"
      [] section = "POL_CONV_TOWER" ->
             IF layer[2] = layer[4] THEN "POL_CONV_TOWER" ELSE "POL_DENSE"
      [] section = "POL_DENSE" -> "VALUE_CONV"
      [] section = "VALUE_CONV" /\ layer[1] % NUM_INTERSECTIONS # 0 ->
             "VALUE_AVGPOOL"
      [] \/ section = "VALUE_CONV" /\ layer[1] % NUM_INTERSECTIONS = 0
         \/ section \in {"VALUE_AVGPOOL", "VALUE_DENSE_TOWER"} ->
             IF layer[2] = layer[4] THEN "VALUE_DENSE_TOWER"
             ELSE "VAL_DENSE_HIDDEN"
      [] section = "VAL_DENSE_HIDDEN" -> "VAL_DENSE_OUT"
      [] section = "VAL_DENSE_OUT" ->
             IF layer[3] > 0 THEN "VBE_DENSE_HIDDEN" ELSE "VBE_DENSE_OUT"
      [] section = "VBE_DENSE_HIDDEN" -> "VBE_DENSE_OUT"
      [] OTHER -> section

\* Network::identify_layer; sections records the sections assigned.
identify_layer(L) ==
    [L EXCEPT !.id.previous = L.id.section,
              !.id.section = NextSection(L.id.section, L.layer, L.channels),
              !.sections =
                  Append(@, NextSection(L.id.section, L.layer, L.channels))]

\* The planes of one input move.
feature_planes(flags) ==
    2 + (IF flags.adv_features THEN 2 ELSE 0)
      + (IF flags.chainlibs_features THEN 4 ELSE 0)
      + (IF flags.chainsize_features THEN 4 ELSE 0)

\* m_input_planes = layer[0].size() / 9 / m_channels.
InputPlanes(layer) == (layer[1] \div 9) \div layer[2]

\* (m_input_planes - (m_include_color ? 2 : 1)) / feature_planes.
InputMoves(planes, flags) ==
    (planes - (IF planes % 2 = 0 THEN 2 ELSE 1)) \div feature_planes(flags)

\* set_network_parameters, case INPUT_CONV; a bias line without floats
\* makes the division undefined.
ParametersOfInput(L) ==
    IF L.layer[2] = 0 THEN [L EXCEPT !.outcome = "undefined"]
    ELSE Asserted(
             [L EXCEPT !.channels = L.layer[2],
                       !.input_planes = InputPlanes(L.layer),
                       !.include_color = (InputPlanes(L.layer) % 2 = 0),
                       !.input_moves = InputMoves(InputPlanes(L.layer),
                                                  L.flags)],
             InputPlanes(L.layer)
                 = InputMoves(InputPlanes(L.layer), L.flags)
                       * feature_planes(L.flags)
                   + (IF InputPlanes(L.layer) % 2 = 0 THEN 2 ELSE 1))

\* set_network_parameters, case VAL_DENSE_OUT.
ParametersOfAlphaOut(L) ==
    Asserted(
        [L EXCEPT !.value_head_rets = L.layer[2],
                  !.val_head_rets = IF L.layer[2] \in {2, 3} THEN 1
                                    ELSE L.layer[2],
                  !.vbe_head_rets = IF L.layer[2] \in {2, 3}
                                    THEN L.layer[2] - 1 ELSE @,
                  !.value_head_type =
                      IF L.layer[2] = 1 THEN "SINGLE"
                      ELSE IF L.layer[2] \in {2, 3} THEN "DOUBLE_I" ELSE @,
                  !.id.complete = TRUE],
        L.layer[2] \in {1, 2, 3})

\* A bug: the beta output always makes the head a DOUBLE_T.
ParametersOfBetaOut_T(L) ==
    Asserted(
        Asserted([L EXCEPT !.vbe_head_rets = L.layer[2],
                           !.value_head_rets = L.val_head_rets + L.layer[2],
                           !.value_head_type = "DOUBLE_T",
                           !.id.complete = TRUE],
                 L.val_head_rets = 1),
        L.layer[2] \in {1, 2})

\* set_network_parameters, case VBE_DENSE_OUT.
ParametersOfBetaOut(L) ==
    Asserted(
        Asserted([L EXCEPT !.vbe_head_rets = L.layer[2],
                           !.value_head_rets = L.val_head_rets + L.layer[2],
                           !.value_head_type =
                               IF @ # "DOUBLE_Y" THEN "DOUBLE_T" ELSE @,
                           !.id.complete = TRUE],
                 L.val_head_rets = 1),
        L.layer[2] \in {1, 2})

\* The switch of set_network_parameters.
ParametersOf(L) ==
    CASE L.id.section = "INPUT_CONV" -> ParametersOfInput(L)
      [] L.id.section = "POL_CONV_TOWER" ->
             IF L.id.section # L.id.previous
             THEN Asserted([L EXCEPT !.policy_outputs = L.layer[2],
                                     !.policy_channels = L.layer[2],
                                     !.residual_blocks =
                                         (L.conv_biases - 1) \div 2],
                           L.conv_biases
                               = 1 + 2 * ((L.conv_biases - 1) \div 2))
             ELSE [L EXCEPT !.policy_outputs = L.layer[2]]
      [] L.id.section = "POL_DENSE" ->
             [L EXCEPT !.policy_conv_layers = L.conv_pol_b]
      [] L.id.section = "VALUE_CONV" ->
             [L EXCEPT !.val_outputs = L.layer[2],
                       !.val_dense_inputs = NUM_INTERSECTIONS * L.layer[2]]
      [] L.id.section = "VALUE_AVGPOOL" ->
             [L EXCEPT !.val_dense_inputs = L.layer[2],
                       !.val_pool_outputs = L.layer[2]]
      [] L.id.section = "VALUE_DENSE_TOWER" ->
             IF L.id.section # L.id.previous
             THEN [L EXCEPT !.value_channels = L.layer[2]]
             ELSE L
      [] L.id.section = "VAL_DENSE_HIDDEN" ->
             [L EXCEPT !.val_chans = L.layer[2]]
      [] L.id.section = "VAL_DENSE_OUT" -> ParametersOfAlphaOut(L)
      [] L.id.section = "VBE_DENSE_HIDDEN" ->
             Asserted([L EXCEPT !.value_head_type = "DOUBLE_Y",
                                !.vbe_chans = L.layer[2],
                                !.id.complete = FALSE],
                      L.val_head_rets = 1)
      [] L.id.section = "VBE_DENSE_OUT" -> ParametersOfBetaOut(L)
      [] OTHER -> L

\* Network::set_network_parameters: the switch, then the test of quartile
\* encoding with more than one beta head.
set_network_parameters(L) ==
    IF L.outcome # "reading" THEN L
    ELSE ExitIf(ParametersOf(L),
                L.flags.quartile_encoding
                    /\ ParametersOf(L).vbe_head_rets > 1)

\* The sizes of the three lines after the weights are all n.
ThreeOf(layer, n) == layer[2] = n /\ layer[3] = n /\ layer[4] = n

\* A bug: the value convolution is never padded.
add_zero_channels_none(L) == L

\* Network::add_zero_channels.
add_zero_channels(L) ==
    [L EXCEPT !.val_outputs = 8, !.conv_val_b = 8]

\* The switch of Network::store_layer.
StoreOf(L) ==
    CASE L.id.section = "INPUT_CONV" ->
             Asserted([L EXCEPT !.conv_biases = @ + 1, !.id.excess = 0],
                      /\ L.layer[1] = L.input_planes * 9 * L.channels
                      /\ ThreeOf(L.layer, L.channels))
      [] L.id.section = "RESCONV_TOWER" ->
             Asserted([L EXCEPT !.conv_biases = @ + 1, !.id.excess = 0],
                      /\ L.layer[1] = L.channels * 9 * L.channels
                      /\ ThreeOf(L.layer, L.channels))
      [] L.id.section = "POL_CONV_TOWER" ->
             Asserted([L EXCEPT !.conv_pol_b = @ + 1, !.id.excess = 0],
                      /\ L.layer[1]
                             = (IF L.id.section # L.id.previous
                                THEN L.channels ELSE L.policy_channels)
                               * L.policy_outputs
                      /\ ThreeOf(L.layer, L.policy_outputs))
      [] L.id.section = "POL_DENSE" ->
             Asserted(ExitIf([L EXCEPT !.id.excess = 2],
                             L.layer[2] # POTENTIAL_MOVES),
                      L.layer[1] = L.policy_outputs * NUM_INTERSECTIONS
                                       * POTENTIAL_MOVES)
      [] L.id.section = "VALUE_CONV" ->
             Asserted([L EXCEPT !.conv_val_b = L.layer[2], !.id.excess = 0],
                      /\ L.layer[1] = L.channels * L.val_outputs
                      /\ ThreeOf(L.layer, L.val_outputs))
      [] L.id.section = "VALUE_AVGPOOL" ->
             Asserted(IF L.val_outputs < 8
                      THEN add_zero_channels([L EXCEPT !.id.excess = 0])
                      ELSE [L EXCEPT !.id.excess = 0],
                      /\ L.layer[1] = L.val_outputs * L.val_pool_outputs
                      /\ ThreeOf(L.layer, L.val_pool_outputs))
      [] L.id.section = "VALUE_DENSE_TOWER" ->
             Asserted([L EXCEPT !.vh_dense_weights = @ + 1, !.id.excess = 0],
                      /\ L.layer[1]
                             = (IF L.id.section # L.id.previous
                                THEN L.val_dense_inputs ELSE L.value_channels)
                               * L.value_channels
                      /\ ThreeOf(L.layer, L.value_channels))
      [] L.id.section = "VAL_DENSE_HIDDEN" ->
             Asserted([L EXCEPT !.id.excess = 2],
                      /\ L.layer[1]
                             = (IF L.vh_dense_weights > 0
                                THEN L.value_channels ELSE L.val_dense_inputs)
                               * L.val_chans
                      /\ L.layer[2] = L.val_chans)
      [] L.id.section = "VAL_DENSE_OUT" ->
             Asserted([L EXCEPT !.ip2_val_b = L.layer[2], !.id.excess = 2],
                      /\ L.layer[1] = L.val_chans * L.value_head_rets
                      /\ L.layer[2] = L.value_head_rets)
      [] L.id.section = "VBE_DENSE_HIDDEN" ->
             Asserted([L EXCEPT !.ip1_vbe_w = L.layer[1], !.id.excess = 2],
                      /\ L.layer[1]
                             = (IF L.vh_dense_weights > 0
                                THEN L.value_channels ELSE L.val_dense_inputs)
                               * L.vbe_chans
                      /\ L.layer[2] = L.vbe_chans)
      [] L.id.section = "VBE_DENSE_OUT" ->
             Asserted([L EXCEPT !.ip2_vbe_w = L.layer[1], !.id.excess = 2],
                      /\ L.layer[1]
                             = (IF L.ip1_vbe_w > 0
                                THEN L.vbe_chans ELSE L.val_chans)
                               * L.vbe_head_rets
                      /\ L.layer[2] = L.vbe_head_rets)
      [] OTHER -> L

\* The sections of which store_layer stores layer[0] and layer[1] only.
TwoLineSections ==
    {"POL_DENSE", "VAL_DENSE_HIDDEN", "VAL_DENSE_OUT", "VBE_DENSE_HIDDEN",
     "VBE_DENSE_OUT"}

\* A bug: the four vectors of the buffer are stored in every section.
StoredLines_four(L) == L.layer_line

\* The lines of the file whose vectors store_layer moves or copies into
\* the network in the section of L.
StoredLines(L) ==
    IF L.id.section = "NONE" THEN <<>>
    ELSE IF L.id.section \in TwoLineSections
    THEN SubSeq(L.layer_line, 1, 2)
    ELSE L.layer_line

\* The stores of store_layer, which follow its asserts and its exit.
KeepLines(L) ==
    IF L.outcome # "reading" THEN L
    ELSE [L EXCEPT !.stored = @ \o StoredLines(L)]

\* Network::store_layer.
store_layer(L) == IF L.outcome # "reading" THEN L ELSE KeepLines(StoreOf(L))

\* The end of read_weights_block: the block is identified and stored when
\* at least one line was read, and the loop of load_v1_network goes on
\* while the buffer was filled.
BlockRead(L) ==
    IF L.missing_lines < 4
    THEN store_layer(set_network_parameters(identify_layer(L)))
    ELSE L

\* load_v1_network after the loop: 0 when id.complete, 1 otherwise.
LoopEnded(L, buffer_complete) ==
    IF L.outcome # "reading" \/ buffer_complete THEN L
    ELSE [L EXCEPT !.outcome = IF L.id.complete THEN "0" ELSE "1"]

\* Network::read_weights_block, and the test of the loop around it.
read_weights_block(L) ==
    LoopEnded(BlockRead(ReadLayer([L EXCEPT !.missing_lines = 0], 0)),
              ReadLayer([L EXCEPT !.missing_lines = 0], 0).missing_lines = 0)

\* The flags load_network_file reads from the bits of the version.
VersionFlags(v) ==
    [adv_features |-> (v \div 16) % 2 = 1,
     chainlibs_features |-> (v \div 64) % 2 = 1,
     chainsize_features |-> (v \div 128) % 2 = 1,
     quartile_encoding |-> (v \div 256) % 2 = 1]

\* A bug: extra_bits = format_version - (format_version & 1023).
wrong_version_wide(version) ==
    \/ ~version.parsed
    \/ version.value % 4 \notin {1, 2}
    \/ version.value - (version.value % 1024) # 0

\* "Weights file is the wrong version": iss.fail(), or lz_or_elf =
\* format_version & 3 is neither 1 nor 2, or extra_bits = format_version -
\* (format_version & 511) is not 0.  The version is an int; & on a negative
\* int is the remainder of the two's complement, which % gives.
wrong_version(version) ==
    \/ ~version.parsed
    \/ version.value % 4 \notin {1, 2}
    \/ version.value - (version.value % 512) # 0

\* Network::load_network_file from the version line to the call of
\* load_v1_network: the loader it starts, or the refusal of the version.
ReadVersion(in) ==
    IF wrong_version(in.version)
    THEN [NewLoader(in.file, in.ndebug, VersionFlags(0))
             EXCEPT !.outcome = "wrong version"]
    ELSE NewLoader(in.file, in.ndebug, VersionFlags(in.version.value))

(***************************************************************************)
(* Weights files.  An architecture a gives the file a network of that      *)
(* shape is written as: 4 lines for a convolution with its batch norm, 2   *)
(* for a dense layer.                                                      *)
(***************************************************************************)
MaxPlanes   == 4   \* input planes 1 .. MaxPlanes
MaxCut      == 4   \* trailing lines removed from a file: 0 .. MaxCut
VersionBits == 10  \* versions from -2^VersionBits to 2^VersionBits

FileChannels == 2      \* channels of the tower
FilePolicy   == 2      \* outputs of the policy convolutions
FileTower    == 3      \* channels of the value head's dense tower
FileHidden   == 5      \* channels of the alpha head's hidden layer
FileBeta     == 4      \* channels of the beta head's hidden layer

Conv(inputs, outputs) == <<inputs * outputs, outputs, outputs, outputs>>
Dense(inputs, outputs) == <<inputs * outputs, outputs>>

\* n blocks, the first with first_in inputs and the others with next_in.
RECURSIVE Tower(_, _, _, _)
Tower(n, first_in, next_in, outputs) ==
    IF n = 0 THEN <<>>
    ELSE Conv(first_in, outputs) \o Tower(n - 1, next_in, next_in, outputs)

\* The inputs of the dense layers that follow the value convolution, its
\* pooling and its tower.
HeadInputs(a) ==
    IF a.vt > 0 THEN FileTower
    ELSE IF a.vpo > 0 THEN a.vpo ELSE NUM_INTERSECTIONS * a.vo

BetaBlocks(a) ==
    CASE a.beta = "Y" -> Dense(HeadInputs(a), FileBeta)
                             \o Dense(FileBeta, a.brets)
      [] a.beta = "T" -> Dense(FileHidden, a.brets)
      [] OTHER -> <<>>

FileOf(a) ==
    Conv(a.planes * 9, FileChannels)
        \o Tower(2 * a.blocks, 9 * FileChannels, 9 * FileChannels,
                 FileChannels)
        \o Tower(a.pl, FileChannels, FilePolicy, FilePolicy)
        \o Dense(FilePolicy * NUM_INTERSECTIONS, POTENTIAL_MOVES)
        \o Conv(FileChannels, a.vo)
        \o (IF a.vpo > 0 THEN Conv(a.vo, a.vpo) ELSE <<>>)
        \o Tower(a.vt, IF a.vpo > 0 THEN a.vpo ELSE NUM_INTERSECTIONS * a.vo,
                 FileTower, FileTower)
        \o Dense(HeadInputs(a), FileHidden)
        \o Dense(FileHidden, a.arets)
        \o BetaBlocks(a)

\* Networks that differ in the value head, and in the input and the towers.
HeadArchitectures ==
    [planes : {4}, blocks : {1}, pl : {1}, vo : {2, 11}, vpo : {0, 3},
     vt : 0..1, arets : 1..3, beta : {"T", "Y"}, brets : 1..2]
    \cup [planes : {4}, blocks : {1}, pl : {1}, vo : {2, 11}, vpo : {0, 3},
          vt : 0..1, arets : 1..3, beta : {"none"}, brets : {0}]

ShapeArchitectures ==
    [planes : 1..MaxPlanes, blocks : 1..2, pl : 1..2, vo : {2}, vpo : {0},
     vt : {0}, arets : {1}, beta : {"none"}, brets : {0}]

\* The file of a, whole, with its last lines removed, or followed by a
\* copy of its last two lines.
FilesOf(a) ==
    {[arch |-> a, cut |-> cut, extra |-> 0,
      file |-> SubSeq(FileOf(a), 1, Len(FileOf(a)) - cut)] : cut \in 0..MaxCut}
    \cup {[arch |-> a, cut |-> 0, extra |-> 2,
           file |-> FileOf(a) \o SubSeq(FileOf(a), Len(FileOf(a)) - 1,
                                        Len(FileOf(a)))]}

ParsedVersions(values) == [parsed : {TRUE}, value : values]

Loads(architectures, versions) ==
    {[version |-> v, file |-> f.file, arch |-> f.arch, cut |-> f.cut,
      extra |-> f.extra, ndebug |-> n] :
        v \in versions, f \in UNION {FilesOf(a) : a \in architectures},
        n \in BOOLEAN}

\* Every version with a file that holds the version line only, and the
\* weights files with the versions of plain, advanced-features and
\* quartile-encoding networks.
LoadArgs ==
    {[version |-> v, file |-> <<>>, arch |-> <<>>, cut |-> 0, extra |-> 0,
      ndebug |-> TRUE] :
        v \in ParsedVersions((-(2^VersionBits))..(2^VersionBits))
                 \cup {[parsed |-> FALSE, value |-> 0]}}
    \cup Loads(HeadArchitectures, ParsedVersions({1, 258}))
    \cup Loads(ShapeArchitectures, ParsedVersions({1, 17, 66}))

LoadInit == CallOf("load_network_file", LoadArgs)

\* load_network_file reads the version line.
LoadVersion ==
    /\ app.op = "load_network_file"
    /\ ~app.done
    /\ app.out = <<>>
    /\ app' = [app EXCEPT !.out = ReadVersion(app.in),
                          !.done = wrong_version(app.in.version)]
    /\ UNCHANGED <<node, pos, pc, arg, out, ghost, drained, calls, wpc, thr>>

\* One turn of the loop of load_v1_network: read_weights_block; the load
\* is over when the loop ends or the process is ended.
LoadBlock ==
    /\ app.op = "load_network_file"
    /\ ~app.done
    /\ app.out # <<>>
    /\ app' = [app EXCEPT
                  !.out = read_weights_block(app.out),
                  !.done = read_weights_block(app.out).outcome # "reading"]
    /\ UNCHANGED <<node, pos, pc, arg, out, ghost, drained, calls, wpc, thr>>

LoadNext == LoadVersion \/ LoadBlock

LoadSpec == LoadInit /\ [][LoadNext]_vars

\* Network::add_zero_channels on the entries of m_conv_val_pool_w, one
\* assignment at a time.  The old matrix has val_pool_outputs rows of
\* old_channels entries, and its entry at index k is the number k + 1.
MaxPool == 2   \* val_pool_outputs 1 .. MaxPool

PadArgs == [old_channels : 0..7, val_pool_outputs : 1..MaxPool]

OldEntry(i, j, old_channels) == i * old_channels + j + 1

\* vector::resize(n, 0.0f).
resize(w, n) ==
    IF n <= Len(w) THEN SubSeq(w, 1, n)
    ELSE w \o [k \in 1..(n - Len(w)) |-> 0]

PadInit ==
    /\ NodeAt(RelinkPositions)
    /\ app \in {[op |-> "add_zero_channels", in |-> a, done |-> FALSE,
                 out |-> [w |-> [k \in 1..(a.val_pool_outputs
                                              * a.old_channels) |-> k],
                          val_outputs |-> a.old_channels,
                          i |-> 0, j |-> 0, at |-> "resize"]] :
                   a \in PadArgs}

PadStep(at, result) ==
    /\ app.op = "add_zero_channels"
    /\ ~app.done
    /\ app.out.at = at
    /\ app' = [app EXCEPT !.out = result, !.done = result.at = "return"]
    /\ UNCHANGED <<node, pos, pc, arg, out, ghost, drained, calls, wpc, thr>>

\* m_val_outputs = 8, the resize of the pool weights, and the start of the
\* loop over the rows, i = m_val_pool_outputs - 1.
PadResize ==
    PadStep("resize",
            [app.out EXCEPT
                !.val_outputs = 8,
                !.w = resize(@, 8 * app.in.val_pool_outputs),
                !.i = app.in.val_pool_outputs - 1,
                !.j = 8, !.at = "zero"])

\* The first inner loop: one turn, or its end and the start of the second.
PadZero ==
    PadStep("zero",
            IF app.out.j > app.in.old_channels
            THEN [app.out EXCEPT
                     !.w[app.out.i * app.out.val_outputs + app.out.j - 1 + 1]
                         = 0,
                     !.j = @ - 1]
            ELSE [app.out EXCEPT !.j = app.in.old_channels, !.at = "copy"])

\* A bug: the old entry is read with the new row stride.
CopiedEntry_padded(w, i, j, old_channels) == w[i * 8 + j - 1 + 1]

\* m_conv_val_pool_w[i * old_channels + j - 1].
CopiedEntry(w, i, j, old_channels) == w[i * old_channels + j - 1 + 1]

\* The second inner loop: one turn, or its end and "if (i == 0) break",
\* i--.
PadCopy ==
    PadStep("copy",
            IF app.out.j > 0
            THEN [app.out EXCEPT
                     !.w[app.out.i * app.out.val_outputs + app.out.j - 1 + 1]
                         = CopiedEntry(app.out.w, app.out.i, app.out.j,
                                       app.in.old_channels),
                     !.j = @ - 1]
            ELSE IF app.out.i = 0 THEN [app.out EXCEPT !.at = "return"]
            ELSE [app.out EXCEPT !.i = @ - 1, !.j = 8, !.at = "zero"])

PadNext == PadResize \/ PadZero \/ PadCopy

PadSpec == PadInit /\ [][PadNext]_vars

(***************************************************************************)
(* Network::gather_features: where the planes of the input are written.    *)
(* An iterator is its distance from begin(input_data); a write of one      *)
(* plane is the feature, the past state h, the sub-plane k and the         *)
(* iterator it starts at.                                                  *)
(***************************************************************************)
MaxInputMoves == 2   \* input_moves 1 .. MaxInputMoves

CHAIN_LIBERTIES_PLANES == 4
CHAIN_SIZE_PLANES == 4

GatherArgs ==
    [input_moves : 1..MaxInputMoves, adv_features : BOOLEAN,
     chainlibs_features : BOOLEAN, chainsize_features : BOOLEAN,
     include_color : BOOLEAN, movenum : 0..MaxMovenum]

plane_block(a) == a.input_moves * NUM_INTERSECTIONS

opponent_it(a) == plane_block(a)

legal_it(a) == opponent_it(a) + (IF a.adv_features THEN plane_block(a) ELSE 0)

atari_it(a) == legal_it(a) + (IF a.adv_features THEN plane_block(a) ELSE 0)

chainlibs_it(a) ==
    atari_it(a) + (IF a.chainlibs_features THEN plane_block(a) ELSE 0)

chainsize_it(a) ==
    chainlibs_it(a)
        + (IF a.chainsize_features THEN plane_block(a) ELSE 0)
        + (IF a.chainlibs_features
           THEN (CHAIN_LIBERTIES_PLANES - 1) * plane_block(a) ELSE 0)

\* std::min<size_t>(state->get_movenum() + 1, input_moves).
moves(a) == IF a.movenum + 1 < a.input_moves THEN a.movenum + 1
            ELSE a.input_moves

\* The planes a fill_input_plane_ function writes for past state h, given
\* the iterator it is passed: planes sub-planes, each NUM_INTERSECTIONS
\* after the one before.
PlanesFilled(feature, it, h, planes) ==
    {[feature |-> feature, h |-> h, k |-> k,
      at |-> it + k * NUM_INTERSECTIONS] : k \in 0..(planes - 1)}

\* One turn of the loop over the past states.
FilledFor(a, h) ==
    PlanesFilled("current", h * NUM_INTERSECTIONS, h, 1)
        \cup PlanesFilled("opponent",
                          opponent_it(a) + h * NUM_INTERSECTIONS, h, 1)
        \cup (IF a.adv_features
              THEN PlanesFilled("legal",
                                legal_it(a) + h * NUM_INTERSECTIONS, h, 1)
                       \cup PlanesFilled("atari",
                                atari_it(a) + h * NUM_INTERSECTIONS, h, 1)
              ELSE {})
        \cup (IF a.chainlibs_features
              THEN PlanesFilled("chainlibs",
                                chainlibs_it(a) + h * NUM_INTERSECTIONS, h,
                                CHAIN_LIBERTIES_PLANES)
              ELSE {})
        \cup (IF a.chainsize_features
              THEN PlanesFilled("chainsize",
                                chainsize_it(a) + h * NUM_INTERSECTIONS, h,
                                CHAIN_SIZE_PLANES)
              ELSE {})

GatherInit ==
    /\ NodeAt(RelinkPositions)
    /\ app \in {[op |-> "gather_features", in |-> a, done |-> FALSE,
                 out |-> [h |-> 0, written |-> {}]] : a \in GatherArgs}

\* "for (auto h = size_t{0}; h < moves; h++)": one turn.
GatherPast ==
    /\ app.op = "gather_features"
    /\ ~app.done
    /\ app.out.h < moves(app.in)
    /\ app' = [app EXCEPT
                  !.out.written = @ \cup FilledFor(app.in, app.out.h),
                  !.out.h = @ + 1]
    /\ UNCHANGED <<node, pos, pc, arg, out, ghost, drained, calls, wpc, thr>>

\* The end of the loop: return input_data.
GatherReturn ==
    /\ app.op = "gather_features"
    /\ ~app.done
    /\ app.out.h >= moves(app.in)
    /\ app' = [app EXCEPT !.done = TRUE]
    /\ UNCHANGED <<node, pos, pc, arg, out, ghost, drained, calls, wpc, thr>>

GatherNext == GatherPast \/ GatherReturn

GatherSpec == GatherInit /\ [][GatherNext]_vars

(***************************************************************************)
(* Network::select_precision (builds with USE_HALF).  A backend either     *)
(* works, or throws when it is initialised, or is initialised and throws   *)
(* when it is run; backends[precision] says which.                         *)
(***************************************************************************)
BackendOutcomes == {"ok", "init_fails", "run_fails"}

\* init_net(channels, OpenCLScheduler<precision>) returns.
init_net(backends, precision) == backends[precision] # "init_fails"

\* benchmark_time returns a score: the backend was initialised and runs.
benchmark_time(backends, precision) == backends[precision] = "ok"

\* select_precision has returned with m_forward holding forward, or has
\* thrown.
Installed(net) == [thrown |-> FALSE, forward |-> net]

Thrown(net) == [thrown |-> TRUE, forward |-> net]

\* init_net(channels, OpenCLScheduler<precision>) outside a try block.
InitOrThrow(backends, precision) ==
    IF init_net(backends, precision) THEN Installed(precision)
    ELSE Thrown("none")

\* The AUTO branch when the fp16 scheduler needs no autodetection.
HalfWithFallback(backends) ==
    IF benchmark_time(backends, "fp16") THEN Installed("fp16")
    ELSE InitOrThrow(backends, "fp32")

\* The AUTO branch that benchmarks both precisions; fp32_close is
\* score_fp32 * 1.05f > score_fp16.
Autodetect(backends, fp32_close) ==
    CASE ~benchmark_time(backends, "fp16")
             /\ ~benchmark_time(backends, "fp32") ->
             Thrown(IF init_net(backends, "fp16") THEN "fp16" ELSE "none")
      [] ~benchmark_time(backends, "fp16")
             /\ benchmark_time(backends, "fp32") ->
             InitOrThrow(backends, "fp32")
      [] benchmark_time(backends, "fp16")
             /\ ~benchmark_time(backends, "fp32") ->
             Installed("fp16")
      [] OTHER ->
             IF fp32_close THEN InitOrThrow(backends, "fp32")
             ELSE Installed("fp16")

\* A bug: AUTO without autodetection does not catch what fp16 throws.
select_precision_uncaught(cfg_precision, needs_autodetect, backends, close) ==
    CASE cfg_precision = "AUTO" ->
             IF ~needs_autodetect
             THEN IF benchmark_time(backends, "fp16") THEN Installed("fp16")
                  ELSE Thrown("none")
             ELSE Autodetect(backends, close)
      [] cfg_precision = "SINGLE" -> InitOrThrow(backends, "fp32")
      [] OTHER -> InitOrThrow(backends, "fp16")

\* Network::select_precision; close is score_fp32 * 1.05f > score_fp16.
select_precision(cfg_precision, needs_autodetect, backends, close) ==
    CASE cfg_precision = "AUTO" ->
             IF ~needs_autodetect THEN HalfWithFallback(backends)
             ELSE Autodetect(backends, close)
      [] cfg_precision = "SINGLE" -> InitOrThrow(backends, "fp32")
      [] OTHER -> InitOrThrow(backends, "fp16")

PrecisionArgs ==
    [cfg_precision : {"AUTO", "SINGLE", "HALF"},
     needs_autodetect : BOOLEAN,
     backends : [{"fp16", "fp32"} -> BackendOutcomes],
     fp32_close : BOOLEAN]

PrecisionInit == CallOf("select_precision", PrecisionArgs)

PrecisionNext ==
    Returns("select_precision",
            select_precision(app.in.cfg_precision, app.in.needs_autodetect,
                             app.in.backends, app.in.fp32_close))

PrecisionSpec == PrecisionInit /\ [][PrecisionNext]_vars

(***************************************************************************)
(* The symmetry table.                                                     *)
(***************************************************************************)

\* C21: every row of the symmetry table is a permutation of the indices
\* 0 .. NUM_INTERSECTIONS - 1, row 0 is the identity, and every symmetry s
\* has an inverse s2 among the 8 with table[s][table[s2][v]] = v for all v.
C21_TableRows ==
    (app.op = "initialize" /\ app.done) =>
        /\ \A s \in Symmetries :
               /\ DOMAIN app.out[s] = Indices
               /\ {app.out[s][v] : v \in Indices} = Indices
        /\ \A v \in Indices : app.out[IDENTITY_SYMMETRY][v] = v
        /\ \A s \in Symmetries : \E s2 \in Symmetries : \A v \in Indices :
               app.out[s][app.out[s2][v]] = v

\* C21's case: the table is built and has a row that is not its own
\* inverse, and a row that moves a vertex.
C21_Witness ==
    /\ app.op = "initialize"
    /\ app.done
    /\ \E s \in Symmetries, v \in Indices : app.out[s][app.out[s][v]] # v
    /\ \E s \in Symmetries, v \in Indices : app.out[s][v] # v

(***************************************************************************)
(* The weights loader (LoadSpec).                                          *)
(***************************************************************************)

\* A load is under way or over: the version line has been read.
Loading == app.op = "load_network_file" /\ app.out # <<>>

\* The load is over and load_network_file has returned 0.
Loaded == Loading /\ app.done /\ app.out.outcome = "0"

\* The sections assigned to the blocks read so far.
Assigned == {app.out.sections[k] : k \in DOMAIN app.out.sections}

\* The sections between two sections in the fixed order.
Between(s, t) ==
    {WeightsSection[k] : k \in (SectionRank(s) + 1)..(SectionRank(t) - 1)}

BetaPending ==
    /\ ~app.done
    /\ Len(read_weights_block(app.out).sections) > Len(app.out.sections)
    /\ read_weights_block(app.out).id.section
           \in {"VBE_DENSE_HIDDEN", "VBE_DENSE_OUT"}

\* C23: in every state of the loader complete is true only if the final
\* value-head block of the file has been stored, never while a beta block
\* is still to be stored, and the load succeeds iff complete is true at the
\* end of the file.
C23_CompleteFinal ==
    Loading =>
        /\ app.out.id.complete => ~BetaPending
        /\ (app.done /\ app.out.outcome \in {"0", "1"}) =>
               (app.out.outcome = "0" <=> app.out.id.complete)

\* C24: a weights file with one or more of its last lines removed is not
\* loaded: the load ends with an error.
C24_TruncationFails ==
    (Loading /\ app.done /\ app.in.cut > 0) => app.out.outcome # "0"

\* bit b of the version v.
VersionBit(v, b) == (v \div (2^b)) % 2 = 1

\* C25, as claimed: a version is accepted iff it parses, is not negative,
\* its bits 0-1 have the value 1 or 2 and its other set bits are among 4,
\* 6, 7 and 8.
C25_KnownBitsOnly ==
    Loading =>
        (app.out.outcome # "wrong version"
            <=> /\ app.in.version.parsed
                /\ app.in.version.value >= 0
                /\ app.in.version.value % 4 \in {1, 2}
                /\ \A b \in 2..(VersionBits + 1) :
                       VersionBit(app.in.version.value, b)
                           => b \in {4, 6, 7, 8})

\* C25, amended: a version is accepted iff it parses, is not negative, its
\* bits 0-1 have the value 1 or 2 and none of its bits from 9 up is set;
\* bits 2, 3 and 5 are not looked at.
C25_VersionAccepted ==
    Loading =>
        (app.out.outcome # "wrong version"
            <=> /\ app.in.version.parsed
                /\ app.in.version.value >= 0
                /\ app.in.version.value % 4 \in {1, 2}
                /\ \A b \in 9..(VersionBits + 1) :
                       ~VersionBit(app.in.version.value, b))

\* C25's case: a version with bits 2, 3 and 5 set is accepted.
C25_Witness ==
    /\ Loading
    /\ app.out.outcome # "wrong version"
    /\ VersionBit(app.in.version.value, 2)
    /\ VersionBit(app.in.version.value, 3)
    /\ VersionBit(app.in.version.value, 5)

\* The head type of the network an architecture describes.
HeadTypeOf(a) ==
    CASE a.beta = "Y" -> "DOUBLE_Y"
      [] a.beta = "T" -> "DOUBLE_T"
      [] OTHER -> IF a.arets = 1 THEN "SINGLE" ELSE "DOUBLE_I"

\* The input is a whole weights file, nothing removed and nothing added.
Whole == app.in.arch # <<>> /\ app.in.cut = 0 /\ app.in.extra = 0

\* C26: after a successful load the head type is SINGLE iff the alpha-out
\* bias has length 1 and no beta block follows, DOUBLE_I iff it has length
\* 2 or 3 and no beta block follows, DOUBLE_Y iff a beta-dense-hidden block
\* is present, DOUBLE_T iff a beta-dense-out block is present without a
\* beta-dense-hidden block; a whole file gets the type it was written for.
C26_HeadType ==
    Loaded =>
        /\ app.out.value_head_type = "SINGLE"
               <=> /\ app.out.ip2_val_b = 1
                   /\ Assigned \cap {"VBE_DENSE_HIDDEN", "VBE_DENSE_OUT"} = {}
        /\ app.out.value_head_type = "DOUBLE_I"
               <=> /\ app.out.ip2_val_b \in {2, 3}
                   /\ Assigned \cap {"VBE_DENSE_HIDDEN", "VBE_DENSE_OUT"} = {}
        /\ app.out.value_head_type = "DOUBLE_Y"
               <=> "VBE_DENSE_HIDDEN" \in Assigned
        /\ app.out.value_head_type = "DOUBLE_T"
               <=> /\ "VBE_DENSE_OUT" \in Assigned
                   /\ "VBE_DENSE_HIDDEN" \notin Assigned
        /\ Whole => app.out.value_head_type = HeadTypeOf(app.in.arch)

\* C26's case: a whole file with a beta-dense-hidden block is loaded.
C26_Witness ==
    /\ Loaded
    /\ Whole
    /\ app.in.arch.beta = "Y"
    /\ "VBE_DENSE_HIDDEN" \in Assigned

\* C27: after a successful load input_planes = input_moves * ftp +
\* (include_color ? 2 : 1), include_color being that input_planes is even;
\* a file whose input convolution admits no such input_moves is not loaded.
C27_InputPlanes ==
    Loaded =>
        /\ app.out.include_color = (app.out.input_planes % 2 = 0)
        /\ app.out.input_planes
               = app.out.input_moves * feature_planes(app.out.flags)
                     + (IF app.out.include_color THEN 2 ELSE 1)

\* C38: while a whole file is loaded, and when it has been loaded, the lines
\* stored are the lines 1, 2, .. of the file in this order, each once; a
\* section of two lines leaves excess = 2 and the next two lines of the file
\* in layer[2] and layer[3], from where the next block takes them; every
\* other section leaves excess = 0 and nothing read that is not stored; at
\* the end every line of the file is stored.
C38_LinesInOrder ==
    (Loading /\ Whole /\ app.out.outcome \in {"reading", "0"}) =>
        LET L == app.out
            n == Len(L.stored)
        IN  /\ L.stored = [k \in 1..n |-> k]
            /\ L.sections # <<>> =>
                   L.id.excess = IF L.sections[Len(L.sections)]
                                        \in TwoLineSections THEN 2 ELSE 0
            /\ L.id.excess = 0 => L.pos = n
            /\ L.id.excess = 2 =>
                   \A i \in 3..4 :
                       L.layer_line[i] = IF n + i - 2 <= Len(L.file)
                                         THEN n + i - 2 ELSE 0
            /\ app.done => n = Len(L.file)

\* C38's case: a whole file with a pooling block, a dense tower and the
\* two beta blocks is loaded, so that a block starts with two lines left
\* by the one before it five times.
C38_Witness ==
    /\ Loaded
    /\ Whole
    /\ app.in.arch.beta = "Y"
    /\ app.in.arch.vpo > 0
    /\ app.in.arch.vt > 0
    /\ Len(app.out.stored) = Len(app.in.file)
    /\ Cardinality({k \in DOMAIN app.out.sections :
                       app.out.sections[k] \in TwoLineSections}) = 5

\* The old entries add_zero_channels has still to read: those of the rows
\* before row i, and of row i those the second loop has not reached.
Unread ==
    {e \in (0..(app.in.val_pool_outputs - 1))
               \X (0..(app.in.old_channels - 1)) :
        \/ app.out.at = "resize"
        \/ e[1] < app.out.i
        \/ e[1] = app.out.i /\ app.out.at = "zero"
        \/ e[1] = app.out.i /\ app.out.at = "copy" /\ e[2] < app.out.j}

\* C39: add_zero_channels leaves a matrix of row stride 8 whose entry
\* (i, j) is the old entry (i, j) for j < old_channels and 0 for j from
\* old_channels to 7, and at no step is an old entry that is still to be
\* read overwritten.
C39_PaddedRows ==
    app.op = "add_zero_channels" =>
        /\ \A e \in Unread :
               app.out.w[e[1] * app.in.old_channels + e[2] + 1]
                   = OldEntry(e[1], e[2], app.in.old_channels)
        /\ app.done =>
               /\ Len(app.out.w) = 8 * app.in.val_pool_outputs
               /\ \A i \in 0..(app.in.val_pool_outputs - 1), j \in 0..7 :
                      app.out.w[i * 8 + j + 1]
                          = IF j < app.in.old_channels
                            THEN OldEntry(i, j, app.in.old_channels)
                            ELSE 0

\* C39's case: a matrix of more than one row and 7 channels is padded, so
\* that row 1 is written over the old place of its own entries.
C39_Witness ==
    /\ app.op = "add_zero_channels"
    /\ app.done
    /\ app.in.val_pool_outputs >= 2
    /\ app.in.old_channels = 7
    /\ app.out.w[8 + 6 + 1] = OldEntry(1, 6, 7)

\* The first plane of the block of a chain feature, and the writes made
\* for the feature.
BlockStart(feature) ==
    (IF feature = "chainlibs" THEN chainlibs_it(app.in)
                              ELSE chainsize_it(app.in)) \div NUM_INTERSECTIONS

WrittenFor(feature) == {w \in app.out.written : w.feature = feature}

PlaneOf(w) == w.at \div NUM_INTERSECTIONS

\* No write of the feature falls outside its block of 4 * input_moves
\* planes.
InsideBlock(feature) ==
    \A w \in WrittenFor(feature) :
        /\ PlaneOf(w) >= BlockStart(feature)
        /\ PlaneOf(w) < BlockStart(feature) + 4 * app.in.input_moves

\* C40: of each chain feature no two pairs (h, k) are written to the same
\* plane, no write falls outside the block of the feature and, when every
\* past state is there, each plane of the block holds one pair.
C40_OwnPlane ==
    (app.op = "gather_features" /\ app.done) =>
        \A feature \in {"chainlibs", "chainsize"} :
            /\ \A w1, w2 \in WrittenFor(feature) :
                   PlaneOf(w1) = PlaneOf(w2) => w1 = w2
            /\ InsideBlock(feature)
            /\ (WrittenFor(feature) # {}
                    /\ moves(app.in) = app.in.input_moves) =>
                   \A p \in 0..(4 * app.in.input_moves - 1) :
                       \E w \in WrittenFor(feature) :
                           PlaneOf(w) = BlockStart(feature) + p

\* C28, as claimed: after a successful load val_outputs is at least 8.
C28_PaddedAlways ==
    (Loaded /\ "VALUE_CONV" \in Assigned) => app.out.val_outputs >= 8

\* C28, amended: after a successful load of a file with a value pooling
\* block val_outputs is at least 8, the value convolution being padded to 8
\* channels when the file gives it fewer; without a pooling block
\* val_outputs is the number of channels the file gives it.
C28_PaddedWhenPooled ==
    (Loaded /\ app.in.arch # <<>>) =>
        IF "VALUE_AVGPOOL" \in Assigned
        THEN /\ app.out.val_outputs >= 8
             /\ app.out.val_outputs = Max(app.in.arch.vo, 8)
             /\ app.out.conv_val_b = app.out.val_outputs
        ELSE app.out.val_outputs = app.in.arch.vo

\* C28's case: a file with a pooling block whose value convolution has
\* fewer than 8 channels is loaded.
C28_Witness ==
    /\ Loaded
    /\ app.in.arch # <<>>
    /\ "VALUE_AVGPOOL" \in Assigned
    /\ app.in.arch.vo < 8
    /\ app.out.val_outputs = 8

(***************************************************************************)
(* wait_expanded (WaitSpec).                                               *)
(***************************************************************************)

\* C30: whenever wait_expanded returns, the node's expand state is
\* EXPANDED, in every interleaving with create_children on the node.
C30_WaitExpanded ==
    [][(wpc = "waiting" /\ wpc' = "returned")
           => node.expand_state = "EXPANDED"]_vars

(***************************************************************************)
(* select_precision (PrecisionSpec).                                       *)
(***************************************************************************)

\* select_precision has run.
Selected == app.op = "select_precision" /\ app.done

\* C29, as claimed: for every precision setting a failure of half precision
\* is followed by single precision; the initialisation throws only if
\* single precision fails as well, and otherwise a working backend is
\* installed.
C29_AlwaysFallsBack ==
    Selected =>
        /\ app.out.thrown => app.in.backends["fp32"] # "ok"
        /\ ~app.out.thrown =>
               /\ app.out.forward \in {"fp16", "fp32"}
               /\ app.in.backends[app.out.forward] = "ok"

\* C29, amended: with AUTO a failure of half precision to initialise or
\* run is caught and single precision is initialised; select_precision
\* throws only if single precision fails too (to initialise, or when both
\* are benchmarked to initialise or run), and otherwise installs a backend
\* that was initialised, half precision only if it ran.  With SINGLE or
\* HALF the one backend is initialised, not run, and nothing is caught.
C29_AutoFallsBack ==
    Selected =>
        CASE app.in.cfg_precision = "AUTO" ->
                 /\ app.out.thrown <=>
                        /\ app.in.backends["fp16"] # "ok"
                        /\ IF app.in.needs_autodetect
                           THEN app.in.backends["fp32"] # "ok"
                           ELSE app.in.backends["fp32"] = "init_fails"
                 /\ ~app.out.thrown =>
                        /\ app.out.forward \in {"fp16", "fp32"}
                        /\ app.in.backends[app.out.forward] # "init_fails"
                        /\ app.out.forward = "fp16" =>
                               app.in.backends["fp16"] = "ok"
                        /\ app.in.backends["fp16"] # "ok" =>
                               app.out.forward = "fp32"
          [] app.in.cfg_precision = "SINGLE" ->
                 /\ app.out.thrown <=> app.in.backends["fp32"] = "init_fails"
                 /\ ~app.out.thrown => app.out.forward = "fp32"
          [] OTHER ->
                 /\ app.out.thrown <=> app.in.backends["fp16"] = "init_fails"
                 /\ ~app.out.thrown => app.out.forward = "fp16"

\* C29's case: AUTO, half precision fails, single precision is installed.
C29_Witness ==
    /\ Selected
    /\ app.in.cfg_precision = "AUTO"
    /\ ~app.in.needs_autodetect
    /\ app.in.backends["fp16"] # "ok"
    /\ ~app.out.thrown
    /\ app.out.forward = "fp32"

====
